---- MODULE Spec2Model ----
(***************************************************************************)
(* The Dashboard component of the Mini Cloud client (src/unnamed/part_000,  *)
(* lines 704-1484) as a state machine: the component's useState fields, the *)
(* requests it has in flight (each one an async handler suspended at an     *)
(* await, with the values its closure captured), and the backend it talks   *)
(* to.  One action per event handler, and one per response delivered to a   *)
(* suspended handler.                                                       *)
(***************************************************************************)
EXTENDS Integers, Sequences, FiniteSets, Bags, TLC

\* ------------------------------------------------------------------ bounds
\* Requests the client may have in flight at once.
MaxInFlight == 4
\* Move and create requests the client may have in flight at once.
MaxMutations == 1
\* Upload requests the client may have in flight at once (one per batch).
MaxUploads == 2
\* Files in one selection of the file picker, the folder picker or a drop.
MaxFiles == 2
\* Longest folder name typed into the create-folder dialog.
MaxNameLen == 2
\* Files the backend stores for the account before it rejects uploads (quota).
MaxStored == 2
\* Requests outstanding when the user leaves a page or ends the session.
MaxLeftBehind == 1

\* ------------------------------------------------------- values and fixture
\* JavaScript null, for a folder id (useState(null)).
Null == 0
\* The account at start: the folders 1 and 2 and the file 11, all at root.
\* The folder id 3 is not in use yet: it is the one the backend gives to the
\* next folder created.
FolderIds == {1, 2, 3}
FileIds == {11}
Absent == -1
InitParent == (1 :> Null) @@ (2 :> Null) @@ (3 :> Absent)
InitFileAt == (11 :> Null)
\* Another account: folder 1 at root, folder 2 in it, the file 11 in folder 2.
NestedParent == (1 :> Null) @@ (2 :> 1) @@ (3 :> Absent)
NestedFileAt == (11 :> 2)

\* null for draggedItem / moveTarget; an item is {...item, type}.
NoItem == [id |-> Null, type |-> "none"]
Item(id, type) == [id |-> id, type |-> type]

Range(s) == {s[i] : i \in 1..Len(s)}

\* The accounts of the backend, as /auth/login returns them in
\* response.data.user: an ordinary user, an admin and the super admin.  The
\* token the backend issues for an account is written as its username.
Account(name, role, super) ==
    [username |-> name, role |-> role, is_super_admin |-> super,
     language |-> "en"]
Accounts == {Account("user", "user", FALSE), Account("admin", "admin", FALSE),
             Account("root", "admin", TRUE)}
Languages == {"en", "ru"}
\* JavaScript null for the App's user and for an item localStorage does not
\* hold.  JSON.stringify and JSON.parse of a user give the same user back, so
\* the 'user' item is written as the user it encodes.
NoUser == Account("", "", FALSE)
NoToken == ""

\* The plugin the plugin page can edit, as GET /admin/plugins lists it, and
\* null for editingPlugin.
Plugin(enabled, blocked) ==
    [name |-> "file_type_filter", enabled |-> enabled,
     settings |-> [blocked_extensions |-> blocked]]
NoPlugin == [name |-> ""]
Extensions == {<<>>, <<".php">>}

VARIABLES
    \* useState fields of Dashboard
    files, folders, currentFolder, breadcrumb, stats, loading,
    newFolderName, showFolderDialog,
    showMoveDialog, moveTarget, moveDestination,
    dragOver, draggedItem, dropTarget,
    \* requests in flight (a bag: two equal requests may be outstanding)
    net,
    \* the backend: each folder's parent, each file's folder, files stored by upload
    srvParent, srvFileAt, srvStored,
    \* history: the last event, the requests it issued, the toasts it showed,
    \* the navigation scenario and the drag gesture under way
    ev, sent, toast, nav, gesture,
    \* useState fields of Dashboard: the delete dialog
    showDeleteDialog, deleteTarget,
    \* the page the router shows (App)
    page,
    \* useState fields of Login (loading is loginLoading here)
    registerData, registerErrors, loginLoading,
    \* useState fields of Profile (loading is profileLoading here)
    passwordData, passwordErrors, profileLoading,
    \* useState fields of AdminPanel (loading is usersLoading here)
    users, usersLoading, showPasswordDialog, selectedUser, newPassword,
    \* useState field loading of PluginManagement
    pluginsLoading,
    \* localStorage 'token' and 'user', and the useState field user of App
    token, userData, user,
    \* history: whether the last session was ended by a logout
    loggedOut,
    \* requests in flight whose page has been unmounted since: their handlers
    \* still run when the response arrives, but no longer have a page to set
    unmounted,
    \* useState fields plugins and editingPlugin of PluginManagement, and the
    \* backend's plugins
    plugins, editingPlugin, srvPlugins

viewVars == <<files, folders, currentFolder, breadcrumb, stats>>
folderDialogVars == <<newFolderName, showFolderDialog>>
moveDialogVars == <<showMoveDialog, moveTarget, moveDestination>>
dragVars == <<dragOver, draggedItem, dropTarget>>
srvVars == <<srvParent, srvFileAt, srvStored>>
deleteDialogVars == <<showDeleteDialog, deleteTarget>>
loginVars == <<registerData, registerErrors, loginLoading>>
profileVars == <<passwordData, passwordErrors, profileLoading>>
adminVars == <<users, usersLoading, showPasswordDialog, selectedUser, newPassword>>
sessionVars == <<token, userData, user, loggedOut>>
pluginVars == <<plugins, editingPlugin, srvPlugins>>
\* What a Dashboard handler never touches: the router, the other pages and
\* the session (handleLogout is the exception).
pageVars == <<page, loginVars, profileVars, adminVars, pluginsLoading,
              sessionVars, pluginVars, unmounted>>
\* What a handler of another page never touches: Dashboard and the files'
\* backend.
dashboardVars == <<viewVars, loading, folderDialogVars, moveDialogVars,
                   deleteDialogVars, dragVars, srvVars, nav, gesture>>
vars == <<files, folders, currentFolder, breadcrumb, stats, loading,
          newFolderName, showFolderDialog, showMoveDialog, moveTarget,
          moveDestination, dragOver, draggedItem, dropTarget, net,
          srvParent, srvFileAt, srvStored, ev, sent, toast, nav, gesture,
          showDeleteDialog, deleteTarget, page, registerData, registerErrors,
          loginLoading, passwordData, passwordErrors, profileLoading,
          users, usersLoading, showPasswordDialog, selectedUser, newPassword,
          pluginsLoading, token, userData, user, loggedOut,
          plugins, editingPlugin, srvPlugins, unmounted>>

\* ------------------------------------------------------------------ backend
\* GET /files/list?folder_id=: the files of one folder (root when omitted).
srvFilesIn(cf) == {f \in FileIds : srvFileAt[f] = cf}
\* GET /folders/tree: every folder of the account, with its parent_id.
srvTree == {f \in FolderIds : srvParent[f] # Absent}
\* GET /folders/breadcrumb/{id}: the ancestor chain from the root to id.
RECURSIVE srvChain(_)
srvChain(id) == IF id = Null THEN <<>> ELSE Append(srvChain(srvParent[id]), id)
\* GET /user/stats: account-wide totals.
srvStats == [file_count |-> Cardinality({f \in FileIds : srvFileAt[f] # Absent})
                               + srvStored,
             folder_count |-> Cardinality(srvTree)]

\* ----------------------------------------------------------------- requests
RECURSIVE AddAll(_, _)
AddAll(bag, reqs) ==
    IF reqs = <<>> THEN bag
    ELSE AddAll(bag (+) SetToBag({Head(reqs)}), Tail(reqs))
Remove(bag, r) == bag (-) SetToBag({r})
Pending == BagToSet(net)
InFlight == BagCardinality(net)
Room(reqs) == InFlight + Len(reqs) <= MaxInFlight
\* Room for the requests a handler issues when its own request is answered.
RoomAfter(reqs) == InFlight - 1 + Len(reqs) <= MaxInFlight

\* The requests in flight whose kind is one of kinds.
RECURSIVE CountIn(_, _)
CountIn(rs, kinds) ==
    IF rs = {} THEN 0
    ELSE LET r == CHOOSE x \in rs : TRUE
         IN  (IF r.kind \in kinds THEN CopiesIn(r, net) ELSE 0)
                 + CountIn(rs \ {r}, kinds)
CountOf(kinds) == CountIn(Pending, kinds)
MutationKinds == {"files/move", "folders/move", "folders/create"}

\* The request each loader sends; cf is the currentFolder its closure holds.
loadFiles(cf) == [kind |-> "files/list", cf |-> cf]
loadFolders(cf) == [kind |-> "folders/tree", cf |-> cf]
loadStats == [kind |-> "user/stats"]
loadBreadcrumb(cf) == [kind |-> "folders/breadcrumb", cf |-> cf]

\* useEffect(..., [currentFolder]): the four loaders, in order.  loadBreadcrumb
\* sends nothing for the root (it sets the breadcrumb to [] at once).
EffectLoads(cf) ==
    <<loadFiles(cf), loadFolders(cf), loadStats>>
        \o (IF cf = Null THEN <<>> ELSE <<loadBreadcrumb(cf)>>)

\* -------------------------------------------------- the other pages' fields
\* The useState values each page starts from.  A password is the sequence of
\* its characters; registerData and passwordData keep the fields the password
\* rules read; registerErrors and passwordErrors are the set of their
\* <<key, message>> pairs.
LoginFields ==
    /\ registerData = [password |-> <<>>, confirm_password |-> <<>>]
    /\ registerErrors = {} /\ loginLoading = FALSE
ProfileFields ==
    /\ passwordData = [current_password |-> <<>>, new_password |-> <<>>,
                       confirm_password |-> <<>>]
    /\ passwordErrors = {} /\ profileLoading = FALSE
AdminPanelFields ==
    /\ users = {} /\ usersLoading = FALSE /\ showPasswordDialog = FALSE
    /\ selectedUser = Null /\ newPassword = <<>>
PluginManagementFields ==
    pluginsLoading = FALSE /\ plugins = <<>> /\ editingPlugin = NoPlugin

\* The session a page is used with where nothing else is said: none on the
\* login page, the super admin's on the plugin page, an admin's on the admin
\* panel, an ordinary user's elsewhere.
AccountOn(p) ==
    CASE p = "Login" -> NoUser
      [] p = "AdminPanel" -> Account("admin", "admin", FALSE)
      [] p = "PluginManagement" -> Account("root", "admin", TRUE)
      [] OTHER -> Account("user", "user", FALSE)
SessionOf(account) ==
    /\ token = account.username /\ userData = account /\ user = account
    /\ loggedOut = FALSE

\* ------------------------------------------------------------------- Init
\* The state after the first render and its effect: the lists are empty and
\* the loads of the root are in flight.
DashboardFields ==
    /\ files = {} /\ folders = {} /\ currentFolder = Null /\ breadcrumb = <<>>
    /\ stats = [file_count |-> 0, folder_count |-> 0]
    /\ loading = FALSE
    /\ newFolderName = <<>> /\ showFolderDialog = FALSE
    /\ showDeleteDialog = FALSE /\ deleteTarget = NoItem
    /\ showMoveDialog = FALSE /\ moveTarget = NoItem /\ moveDestination = Null
    /\ dragOver = FALSE /\ draggedItem = NoItem /\ dropTarget = Null

InitWith(parent, fileAt) ==
    /\ DashboardFields
    /\ net = AddAll(EmptyBag, EffectLoads(Null))
    /\ srvParent = parent /\ srvFileAt = fileAt /\ srvStored = 0
    /\ ev = [name |-> "mount"] /\ sent = EffectLoads(Null) /\ toast = <<>>
    /\ nav = "start" /\ gesture = "none"
    /\ page = "Dashboard"
    /\ LoginFields /\ ProfileFields /\ AdminPanelFields
    /\ PluginManagementFields /\ srvPlugins = Plugin(TRUE, <<>>)
    /\ SessionOf(AccountOn("Dashboard")) /\ unmounted = EmptyBag

Init == InitWith(InitParent, InitFileAt)

\* The pages the router shows, and the requests the effect of each sends
\* after its first render (loadUsers and loadPlugins set loading first).
\* Profile's storage card and its own loadStats are left out.
Pages == {"Login", "Dashboard", "Profile", "AdminPanel", "PluginManagement"}
loadUsers == [kind |-> "admin/users"]
loadPlugins == [kind |-> "admin/plugins"]
MountRequests(p) ==
    CASE p = "Dashboard" -> EffectLoads(Null)
      [] p = "AdminPanel" -> <<loadUsers>>
      [] p = "PluginManagement" -> <<loadPlugins>>
      [] OTHER -> <<>>

\* The state after page p was opened: its first render and its effect.
InitPage(p) ==
    /\ DashboardFields
    /\ srvParent = InitParent /\ srvFileAt = InitFileAt /\ srvStored = 0
    /\ nav = "start" /\ gesture = "none"
    /\ page = p
    /\ LoginFields /\ ProfileFields
    /\ users = {} /\ usersLoading = (p = "AdminPanel")
    /\ showPasswordDialog = FALSE /\ selectedUser = Null /\ newPassword = <<>>
    /\ pluginsLoading = (p = "PluginManagement")
    /\ plugins = <<>> /\ editingPlugin = NoPlugin
    /\ srvPlugins = Plugin(TRUE, <<>>)
    /\ SessionOf(AccountOn(p)) /\ unmounted = EmptyBag
    /\ net = AddAll(EmptyBag, MountRequests(p))
    /\ ev = [name |-> "mount"] /\ sent = MountRequests(p) /\ toast = <<>>

\* ------------------------------------------------------------- navigation
\* What the user can click to change folder: the home button, a breadcrumb
\* entry, a folder row.
NavTargets == {Null} \cup folders \cup Range(breadcrumb)

\* The displayed view is the root's, fully loaded.
RootShown ==
    /\ currentFolder = Null /\ net = EmptyBag /\ breadcrumb = <<>>
    /\ files = srvFilesIn(Null)
    /\ folders = {f \in srvTree : srvParent[f] = Null}

\* The scenario "root shown, Navigate(X), Navigate(null)" as it unfolds:
\* "away" after its first navigation, "back" after its second; any other
\* navigation, and any failed load in between, ends it ("other").
NavNext(id) ==
    CASE id # Null /\ RootShown -> "away"
      [] id = Null /\ nav = "away" -> "back"
      [] OTHER -> "other"
NavAfter(ok) == IF ~ok /\ nav \in {"away", "back"} THEN "other" ELSE nav

\* setCurrentFolder(id).  React skips the render, and so the effect, when the
\* value is the one already held.
Navigate(id) ==
    /\ id \in NavTargets
    /\ currentFolder' = id
    /\ IF id = currentFolder
         THEN /\ sent' = <<>>
              /\ UNCHANGED <<net, breadcrumb, nav>>
         ELSE /\ Room(EffectLoads(id))
              /\ sent' = EffectLoads(id)
              /\ net' = AddAll(net, EffectLoads(id))
              /\ breadcrumb' = IF id = Null THEN <<>> ELSE breadcrumb
              /\ nav' = NavNext(id)
    /\ ev' = [name |-> "Navigate", id |-> id]
    /\ toast' = <<>>
    /\ UNCHANGED <<files, folders, stats, loading, gesture>>
    /\ UNCHANGED <<folderDialogVars, moveDialogVars, dragVars, srvVars>>
    /\ UNCHANGED <<deleteDialogVars, pageVars>>

\* ------------------------------------------------------- loaders' responses
\* The backend answers a request at some moment between its sending and the
\* delivery of the response.  A list request it has answered carries the
\* answer (resp): the listing, or the tree, as of that moment.  One it has not
\* answered yet is answered as it is delivered.
Answered(r) == "resp" \in DOMAIN r
listOf(r) == IF Answered(r) THEN r.resp ELSE srvFilesIn(r.cf)
treeOf(r) == IF Answered(r) THEN r.resp ELSE srvParent

loadFilesDone(r, ok) ==
    /\ r \in Pending /\ r.kind = "files/list"
    /\ net' = Remove(net, r)
    /\ files' = IF ok THEN listOf(r) ELSE files
    /\ ev' = [name |-> "loadFiles", ok |-> ok]
    /\ sent' = <<>> /\ toast' = <<>> /\ nav' = NavAfter(ok)
    /\ UNCHANGED <<folders, currentFolder, breadcrumb, stats, loading, gesture>>
    /\ UNCHANGED <<folderDialogVars, moveDialogVars, dragVars, srvVars>>
    /\ UNCHANGED <<deleteDialogVars, pageVars>>

loadFoldersDone(r, ok) ==
    /\ r \in Pending /\ r.kind = "folders/tree"
    /\ net' = Remove(net, r)
    /\ folders' = IF ok THEN {f \in FolderIds : treeOf(r)[f] = r.cf} ELSE folders
    /\ ev' = [name |-> "loadFolders", ok |-> ok]
    /\ sent' = <<>> /\ toast' = <<>> /\ nav' = NavAfter(ok)
    /\ UNCHANGED <<files, currentFolder, breadcrumb, stats, loading, gesture>>
    /\ UNCHANGED <<folderDialogVars, moveDialogVars, dragVars, srvVars>>
    /\ UNCHANGED <<deleteDialogVars, pageVars>>

loadStatsDone(r, ok) ==
    /\ r \in Pending /\ r.kind = "user/stats"
    /\ net' = Remove(net, r)
    /\ stats' = IF ok THEN srvStats ELSE stats
    /\ ev' = [name |-> "loadStats", ok |-> ok]
    /\ sent' = <<>> /\ toast' = <<>> /\ nav' = NavAfter(ok)
    /\ UNCHANGED <<files, folders, currentFolder, breadcrumb, loading, gesture>>
    /\ UNCHANGED <<folderDialogVars, moveDialogVars, dragVars, srvVars>>
    /\ UNCHANGED <<deleteDialogVars, pageVars>>

loadBreadcrumbDone(r, ok) ==
    /\ r \in Pending /\ r.kind = "folders/breadcrumb"
    /\ ok => r.cf \in srvTree
    /\ net' = Remove(net, r)
    /\ breadcrumb' = IF ok THEN srvChain(r.cf) ELSE breadcrumb
    /\ ev' = [name |-> "loadBreadcrumb", ok |-> ok]
    /\ sent' = <<>> /\ toast' = <<>> /\ nav' = NavAfter(ok)
    /\ UNCHANGED <<files, folders, currentFolder, stats, loading, gesture>>
    /\ UNCHANGED <<folderDialogVars, moveDialogVars, dragVars, srvVars>>
    /\ UNCHANGED <<deleteDialogVars, pageVars>>

\* The three reloads every handler shares.  While the root is shown
\* loadBreadcrumb returns before any request, so these are all the responses
\* there are.
ListLoadersDone ==
    \E r \in Pending, ok \in BOOLEAN :
        \/ loadFilesDone(r, ok)
        \/ loadFoldersDone(r, ok)
        \/ loadStatsDone(r, ok)

LoadersDone ==
    \/ ListLoadersDone
    \/ \E r \in Pending, ok \in BOOLEAN : loadBreadcrumbDone(r, ok)

\* ------------------------------------------------------------ drag and drop
\* The dialogs are modal: while one is open the page behind it takes no click
\* and no drag.
NoDialog == ~showMoveDialog /\ ~showFolderDialog /\ ~showDeleteDialog

\* The rows of the file manager: folders first, then files.
Rows == {Item(f, "folder") : f \in folders} \cup {Item(f, "file") : f \in files}

\* Neither a request nor a toast.
Quiet == sent' = <<>> /\ toast' = <<>>

handleDragStart(item) ==
    /\ NoDialog /\ item \in Rows
    /\ draggedItem' = item
    /\ gesture' = "dragging"
    /\ ev' = [name |-> "handleDragStart"]
    /\ Quiet
    /\ UNCHANGED <<viewVars, loading, net, nav, dragOver, dropTarget>>
    /\ UNCHANGED <<folderDialogVars, moveDialogVars, srvVars>>
    /\ UNCHANGED <<deleteDialogVars, pageVars>>

\* (mutant) setDraggedItem(null) forgotten.
handleDragEnd_keepsDraggedItem ==
    /\ NoDialog
    /\ dropTarget' = Null
    /\ gesture' = IF gesture = "dragging" THEN "cancelled" ELSE "none"
    /\ ev' = [name |-> "handleDragEnd"]
    /\ Quiet
    /\ UNCHANGED <<viewVars, loading, net, nav, dragOver, draggedItem>>
    /\ UNCHANGED <<folderDialogVars, moveDialogVars, srvVars>>
    /\ UNCHANGED <<deleteDialogVars, pageVars>>

\* (mutant) setDropTarget(null) forgotten.
handleDragEnd_keepsDropTarget ==
    /\ NoDialog
    /\ draggedItem' = NoItem
    /\ gesture' = IF gesture = "dragging" THEN "cancelled" ELSE "none"
    /\ ev' = [name |-> "handleDragEnd"]
    /\ Quiet
    /\ UNCHANGED <<viewVars, loading, net, nav, dragOver, dropTarget>>
    /\ UNCHANGED <<folderDialogVars, moveDialogVars, srvVars>>
    /\ UNCHANGED <<deleteDialogVars, pageVars>>

handleDragEnd ==
    /\ NoDialog
    /\ draggedItem' = NoItem
    /\ dropTarget' = Null
    /\ gesture' = IF gesture = "dragging" THEN "cancelled" ELSE "none"
    /\ ev' = [name |-> "handleDragEnd"]
    /\ Quiet
    /\ UNCHANGED <<viewVars, loading, net, nav, dragOver>>
    /\ UNCHANGED <<folderDialogVars, moveDialogVars, srvVars>>
    /\ UNCHANGED <<deleteDialogVars, pageVars>>

\* onDragOver of a folder row (only folder rows have one).
handleDragOverItem(id) ==
    /\ NoDialog /\ id \in folders
    /\ dropTarget' = IF draggedItem # NoItem /\ draggedItem.id # id
                       THEN id ELSE dropTarget
    /\ ev' = [name |-> "handleDragOverItem"]
    /\ Quiet
    /\ UNCHANGED <<viewVars, loading, net, nav, dragOver, draggedItem, gesture>>
    /\ UNCHANGED <<folderDialogVars, moveDialogVars, srvVars>>
    /\ UNCHANGED <<deleteDialogVars, pageVars>>

handleDragLeaveItem ==
    /\ NoDialog /\ folders # {}
    /\ dropTarget' = Null
    /\ ev' = [name |-> "handleDragLeaveItem"]
    /\ Quiet
    /\ UNCHANGED <<viewVars, loading, net, nav, dragOver, draggedItem, gesture>>
    /\ UNCHANGED <<folderDialogVars, moveDialogVars, srvVars>>
    /\ UNCHANGED <<deleteDialogVars, pageVars>>

\* onDragOver / onDragLeave of the file-manager card.
handleDragOver ==
    /\ NoDialog
    /\ dragOver' = TRUE
    /\ ev' = [name |-> "handleDragOver"]
    /\ Quiet
    /\ UNCHANGED <<viewVars, loading, net, nav, draggedItem, dropTarget, gesture>>
    /\ UNCHANGED <<folderDialogVars, moveDialogVars, srvVars>>
    /\ UNCHANGED <<deleteDialogVars, pageVars>>

handleDragLeave ==
    /\ NoDialog
    /\ dragOver' = FALSE
    /\ ev' = [name |-> "handleDragLeave"]
    /\ Quiet
    /\ UNCHANGED <<viewVars, loading, net, nav, draggedItem, dropTarget, gesture>>
    /\ UNCHANGED <<folderDialogVars, moveDialogVars, srvVars>>
    /\ UNCHANGED <<deleteDialogVars, pageVars>>

\* POST /files/move or /folders/move.  via names the handler that awaits the
\* response; cf is the currentFolder its closure holds for the reloads.
moveRequest(item, dest, via, cf) ==
    [kind |-> IF item.type = "file" THEN "files/move" ELSE "folders/move",
     id |-> item.id, dest |-> dest, via |-> via, cf |-> cf]

RoomToMove(r) == Room(<<r>>) /\ CountOf(MutationKinds) < MaxMutations

\* The drop handlers' early return: nothing is dragged, or the item was
\* dropped on itself.
dropIgnored(target) == draggedItem = NoItem \/ draggedItem.id = target

\* The body shared by handleDropOnFolder (target a folder id) and
\* handleDropOnRoot (target null, where only !draggedItem returns early).
dropOn(target, name) ==
    /\ dropTarget' = Null
    /\ gesture' = "dropped"
    /\ ev' = [name |-> name, target |-> target,
              ignored |-> dropIgnored(target)]
    /\ toast' = <<>>
    /\ IF dropIgnored(target)
         THEN sent' = <<>> /\ UNCHANGED net
         ELSE /\ RoomToMove(moveRequest(draggedItem, target, "drop", currentFolder))
              /\ sent' = <<moveRequest(draggedItem, target, "drop", currentFolder)>>
              /\ net' = AddAll(net, sent')
    /\ UNCHANGED <<viewVars, loading, nav, dragOver, draggedItem>>
    /\ UNCHANGED <<folderDialogVars, moveDialogVars, srvVars>>
    /\ UNCHANGED <<deleteDialogVars, pageVars>>

handleDropOnFolder(target) ==
    /\ NoDialog /\ target \in folders
    /\ dropOn(target, "handleDropOnFolder")

handleDropOnRoot ==
    /\ NoDialog
    /\ dropOn(Null, "handleDropOnRoot")

\* ------------------------------------------------------------- move dialog
\* The move button of a row: setMoveTarget({...item, type}); setShowMoveDialog(true).
openMoveDialog(item) ==
    /\ NoDialog /\ item \in Rows
    /\ moveTarget' = item
    /\ showMoveDialog' = TRUE
    /\ ev' = [name |-> "openMoveDialog"]
    /\ Quiet
    /\ UNCHANGED <<viewVars, loading, net, nav, moveDestination, gesture>>
    /\ UNCHANGED <<folderDialogVars, dragVars, srvVars>>
    /\ UNCHANGED <<deleteDialogVars, pageVars>>

\* The destinations the dialog offers: root, and each folder of the current
\* level whose button is not disabled (disabled={moveTarget?.id === folder.id}).
Destinations == {Null} \cup {f \in folders : moveTarget.id # f}

selectDestination(dest) ==
    /\ showMoveDialog /\ dest \in Destinations
    /\ moveDestination' = dest
    /\ ev' = [name |-> "selectDestination"]
    /\ Quiet
    /\ UNCHANGED <<viewVars, loading, net, nav, showMoveDialog, moveTarget, gesture>>
    /\ UNCHANGED <<folderDialogVars, dragVars, srvVars>>
    /\ UNCHANGED <<deleteDialogVars, pageVars>>

\* onOpenChange(false): Escape, the close button, a click outside.
closeMoveDialog ==
    /\ showMoveDialog
    /\ showMoveDialog' = FALSE
    /\ ev' = [name |-> "closeMoveDialog"]
    /\ Quiet
    /\ UNCHANGED <<viewVars, loading, net, nav, moveTarget, moveDestination, gesture>>
    /\ UNCHANGED <<folderDialogVars, dragVars, srvVars>>
    /\ UNCHANGED <<deleteDialogVars, pageVars>>

handleMove ==
    /\ showMoveDialog
    /\ ev' = [name |-> "handleMove"]
    /\ toast' = <<>>
    /\ IF moveTarget = NoItem
         THEN sent' = <<>> /\ UNCHANGED net
         ELSE /\ RoomToMove(moveRequest(moveTarget, moveDestination, "dialog", currentFolder))
              /\ sent' = <<moveRequest(moveTarget, moveDestination, "dialog", currentFolder)>>
              /\ net' = AddAll(net, sent')
    /\ UNCHANGED <<viewVars, loading, nav, gesture>>
    /\ UNCHANGED <<folderDialogVars, moveDialogVars, dragVars, srvVars>>
    /\ UNCHANGED <<deleteDialogVars, pageVars>>

\* --------------------------------------------------- the backend and a move
RECURSIVE srvIsUnder(_, _)
\* Folder a is folder b or lies below it.
srvIsUnder(a, b) ==
    IF a \in {Null, Absent} THEN FALSE
    ELSE IF a = b THEN TRUE ELSE srvIsUnder(srvParent[a], b)

\* The backend keeps the folders a forest: it refuses to move a folder into
\* itself or below itself.
srvAccepts(r) == r.kind = "folders/move" => ~srvIsUnder(r.dest, r.id)

srvAfterMove(r) ==
    /\ srvParent' = IF r.kind = "folders/move"
                      THEN [srvParent EXCEPT ![r.id] = r.dest] ELSE srvParent
    /\ srvFileAt' = IF r.kind = "files/move"
                      THEN [srvFileAt EXCEPT ![r.id] = r.dest] ELSE srvFileAt
    /\ UNCHANGED srvStored

\* What a move's success is reported with.
movedToast(r) ==
    IF r.via = "dialog" THEN "Moved successfully"
    ELSE IF r.kind = "files/move"
           THEN (IF r.dest = Null THEN "File moved to root" ELSE "File moved successfully")
           ELSE (IF r.dest = Null THEN "Folder moved to root" ELSE "Folder moved successfully")

\* (mutant) the stats reloaded as well, as after a delete.
dropMoveReloads_withStats(cf, ok) ==
    IF ok THEN <<loadFiles(cf), loadFolders(cf), loadStats>> ELSE <<>>

\* (mutant) the reloads moved out of the try block.
dropMoveReloads_regardless(cf, ok) == <<loadFiles(cf), loadFolders(cf)>>

\* The reloads a drop handler issues once its move request is answered: they
\* are inside the try block, after the await.
dropMoveReloads(cf, ok) == IF ok THEN <<loadFiles(cf), loadFolders(cf)>> ELSE <<>>

\* handleDropOnFolder / handleDropOnRoot resumed by the response.
dropMoveDone(r, ok) ==
    /\ r \in Pending /\ r.kind \in {"files/move", "folders/move"} /\ r.via = "drop"
    /\ ok => srvAccepts(r)
    /\ RoomAfter(dropMoveReloads(r.cf, ok))
    /\ IF ok THEN srvAfterMove(r) ELSE UNCHANGED srvVars
    /\ sent' = dropMoveReloads(r.cf, ok)
    /\ net' = AddAll(Remove(net, r), sent')
    /\ toast' = <<[kind |-> IF ok THEN "success" ELSE "error",
                   msg |-> IF ok THEN movedToast(r) ELSE "Failed to move"]>>
    /\ draggedItem' = NoItem
    /\ ev' = [name |-> "dropMoveDone", ok |-> ok]
    /\ UNCHANGED <<viewVars, loading, nav, dragOver, dropTarget, gesture>>
    /\ UNCHANGED <<folderDialogVars, moveDialogVars>>
    /\ UNCHANGED <<deleteDialogVars, pageVars>>

\* handleMove resumed by the response.
handleMoveDone(r, ok) ==
    /\ r \in Pending /\ r.kind \in {"files/move", "folders/move"} /\ r.via = "dialog"
    /\ ok => srvAccepts(r)
    /\ IF ok
         THEN /\ RoomAfter(<<loadFiles(r.cf), loadFolders(r.cf)>>)
              /\ srvAfterMove(r)
              /\ showMoveDialog' = FALSE
              /\ moveTarget' = NoItem
              /\ moveDestination' = Null
              /\ sent' = <<loadFiles(r.cf), loadFolders(r.cf)>>
              /\ toast' = <<[kind |-> "success", msg |-> movedToast(r)]>>
         ELSE /\ UNCHANGED <<srvVars, moveDialogVars>>
              /\ sent' = <<>>
              /\ toast' = <<[kind |-> "error", msg |-> "Failed to move"]>>
    /\ net' = AddAll(Remove(net, r), sent')
    /\ ev' = [name |-> "handleMoveDone", ok |-> ok]
    /\ UNCHANGED <<viewVars, loading, nav, gesture>>
    /\ UNCHANGED <<folderDialogVars, dragVars>>
    /\ UNCHANGED <<deleteDialogVars, pageVars>>

\* ------------------------------------------------------ create-folder dialog
\* The characters a folder name is typed from, and the names tried.
Chars == {" ", "a"}
Names == UNION {[1..n -> Chars] : n \in 0..MaxNameLen}
IsSpace(c) == c = " "

\* String.prototype.trim: the string without its leading and trailing
\* white space.
RECURSIVE trimStart(_)
trimStart(str) ==
    IF str # <<>> /\ IsSpace(Head(str)) THEN trimStart(Tail(str)) ELSE str
RECURSIVE trimEnd(_)
trimEnd(str) ==
    IF str # <<>> /\ IsSpace(str[Len(str)])
      THEN trimEnd(SubSeq(str, 1, Len(str) - 1)) ELSE str
trim(str) == trimEnd(trimStart(str))

\* (mutant) the test without the trim.
nameRejected_untrimmed(name) == name = <<>>

\* if (!newFolderName.trim()) return;
nameRejected(name) == trim(name) = <<>>

\* The "new folder" button (the dialog's trigger) and onOpenChange(false).
openFolderDialog ==
    /\ NoDialog
    /\ showFolderDialog' = TRUE
    /\ ev' = [name |-> "openFolderDialog"]
    /\ Quiet
    /\ UNCHANGED <<viewVars, loading, net, nav, gesture, newFolderName>>
    /\ UNCHANGED <<moveDialogVars, dragVars, srvVars>>
    /\ UNCHANGED <<deleteDialogVars, pageVars>>

closeFolderDialog ==
    /\ showFolderDialog
    /\ showFolderDialog' = FALSE
    /\ ev' = [name |-> "closeFolderDialog"]
    /\ Quiet
    /\ UNCHANGED <<viewVars, loading, net, nav, gesture, newFolderName>>
    /\ UNCHANGED <<moveDialogVars, dragVars, srvVars>>
    /\ UNCHANGED <<deleteDialogVars, pageVars>>

\* onChange of the name input.
setNewFolderName(name) ==
    /\ showFolderDialog
    /\ newFolderName' = name
    /\ ev' = [name |-> "setNewFolderName"]
    /\ Quiet
    /\ UNCHANGED <<viewVars, loading, net, nav, gesture, showFolderDialog>>
    /\ UNCHANGED <<moveDialogVars, dragVars, srvVars>>
    /\ UNCHANGED <<deleteDialogVars, pageVars>>

\* POST /folders/create {name, parent_id: currentFolder}.
createRequest(name, cf) ==
    [kind |-> "folders/create", name |-> name, parent_id |-> cf, cf |-> cf]

handleCreateFolder ==
    /\ showFolderDialog
    /\ ev' = [name |-> "handleCreateFolder"]
    /\ toast' = <<>>
    /\ IF nameRejected(newFolderName)
         THEN sent' = <<>> /\ UNCHANGED net
         ELSE /\ RoomToMove(createRequest(newFolderName, currentFolder))
              /\ sent' = <<createRequest(newFolderName, currentFolder)>>
              /\ net' = AddAll(net, sent')
    /\ UNCHANGED <<viewVars, loading, nav, gesture>>
    /\ UNCHANGED <<folderDialogVars, moveDialogVars, dragVars, srvVars>>
    /\ UNCHANGED <<deleteDialogVars, pageVars>>

\* The backend creates the folder under the next free id; it refuses when the
\* account has none left.
srvFreeFolders == FolderIds \ srvTree
srvNewFolder == CHOOSE f \in srvFreeFolders : \A g \in srvFreeFolders : f <= g

\* handleCreateFolder resumed by the response.
handleCreateFolderDone(r, ok) ==
    /\ r \in Pending /\ r.kind = "folders/create"
    /\ ok => srvFreeFolders # {}
    /\ IF ok
         THEN /\ RoomAfter(<<loadFolders(r.cf), loadStats>>)
              /\ srvParent' = [srvParent EXCEPT ![srvNewFolder] = r.parent_id]
              /\ newFolderName' = <<>>
              /\ showFolderDialog' = FALSE
              /\ sent' = <<loadFolders(r.cf), loadStats>>
              /\ toast' = <<[kind |-> "success", msg |-> "folderCreated"]>>
         ELSE /\ UNCHANGED <<srvParent, folderDialogVars>>
              /\ sent' = <<>>
              /\ toast' = <<[kind |-> "error", msg |-> "folderCreateFailed"]>>
    /\ net' = AddAll(Remove(net, r), sent')
    /\ ev' = [name |-> "handleCreateFolderDone", ok |-> ok]
    /\ UNCHANGED <<viewVars, loading, nav, gesture, srvFileAt, srvStored>>
    /\ UNCHANGED <<moveDialogVars, dragVars>>
    /\ UNCHANGED <<deleteDialogVars, pageVars>>

\* ------------------------------------------------------------------ upload
\* The files a selection is taken from, each with its webkitRelativePath split
\* at "/" (a file picked or dropped has ""; the model keeps its segments).
Tree == << [name |-> "a.txt", rel |-> <<"docs", "a.txt">>],
           [name |-> "b.txt", rel |-> <<"docs", "sub", "b.txt">>],
           [name |-> "c.txt", rel |-> <<"docs", "c.txt">>] >>
Selection(n) == SubSeq(Tree, 1, n)
Sizes == 0..MaxFiles

\* pathParts.slice(0, -1).join('/'): the relative path without the file name.
\* The segments stand for the joined string; no folder path is empty, so none
\* is falsy where handleFileUpload tests it.
folderPathOf(file) == SubSeq(file.rel, 1, Len(file.rel) - 1)
NoPath == <<>>

\* filesByPath[folderPath].push(file): the groups in the order their paths
\* first occur, which is the order Object.entries gives them in.
RECURSIVE pushByPath(_, _)
pushByPath(groups, file) ==
    IF groups = <<>> THEN <<[path |-> folderPathOf(file), files |-> <<file>>]>>
    ELSE IF Head(groups).path = folderPathOf(file)
      THEN <<[Head(groups) EXCEPT !.files = Append(@, file)]>> \o Tail(groups)
      ELSE <<Head(groups)>> \o pushByPath(Tail(groups), file)
RECURSIVE filesByPath(_)
filesByPath(fs) ==
    IF fs = <<>> THEN <<>>
    ELSE pushByPath(filesByPath(SubSeq(fs, 1, Len(fs) - 1)), fs[Len(fs)])

\* POST /files/upload for the i-th file of a handleFileUpload call: the call's
\* files, folderPath and counters, the currentFolder its closure holds, and,
\* in a folder upload, the groups handleFolderUpload has yet to pass on (rest).
\* History: the files requested so far in the call (reqs), their outcomes
\* (log), and the outcomes of the whole user action so far (act).
uploadRequest(fs, path, cf, rest, origin, act) ==
    [kind |-> "files/upload", files |-> fs, i |-> 1, path |-> path, cf |-> cf,
     folder_id |-> IF path = NoPath /\ cf # Null THEN cf ELSE Null,
     successCount |-> 0, errorCount |-> 0, rest |-> rest, origin |-> origin,
     reqs |-> <<fs[1]>>, log |-> <<>>, act |-> act]

RoomToUpload(reqs) == Room(reqs) /\ CountOf({"files/upload"}) < MaxUploads

\* handleFileUpload(files) from the file picker's onChange.  The picker opens
\* from the upload button, which is disabled while loading.
onChangeFiles(n) ==
    /\ NoDialog /\ ~loading
    /\ ev' = [name |-> "handleFileUpload", n |-> n]
    /\ toast' = <<>>
    /\ IF n = 0
         THEN sent' = <<>> /\ UNCHANGED <<net, loading>>
         ELSE /\ sent' = <<uploadRequest(Selection(n), NoPath, currentFolder,
                                         <<>>, "picker", <<>>)>>
              /\ RoomToUpload(sent')
              /\ net' = AddAll(net, sent')
              /\ loading' = TRUE
    /\ UNCHANGED <<viewVars, nav, gesture>>
    /\ UNCHANGED <<folderDialogVars, moveDialogVars, dragVars, srvVars>>
    /\ UNCHANGED <<deleteDialogVars, pageVars>>

\* The names the directory chosen in the folder picker may have, and the files
\* the picker hands over for it: the first n files of the tree, each
\* webkitRelativePath starting with the directory's name.
Tops == {"docs", "constructor"}
Picked(n, top) ==
    [i \in 1..n |-> [Selection(n)[i] EXCEPT !.rel = <<top>> \o Tail(@)]]

\* const filesByPath = {}: an object literal inherits the properties of
\* Object.prototype, so filesByPath[folderPath] has a value, a function or
\* Object.prototype itself, before anything is stored under such a name.  A
\* path of several segments has a "/" in it and is the name of none.
ObjectPrototypeKeys ==
    {"constructor", "hasOwnProperty", "isPrototypeOf", "propertyIsEnumerable",
     "toLocaleString", "toString", "valueOf", "__proto__",
     "__defineGetter__", "__defineSetter__", "__lookupGetter__",
     "__lookupSetter__"}
inherited(path) == Len(path) = 1 /\ path[1] \in ObjectPrototypeKeys

\* The grouping loop of handleFolderUpload throws a TypeError: for an
\* inherited name !filesByPath[folderPath] is false, no array is stored, and
\* the value found has no push.
groupingThrows(fs) == \E i \in 1..Len(fs) : inherited(folderPathOf(fs[i]))

\* handleFolderUpload from the folder picker's onChange, for the first n files
\* of a directory named top: the first group goes to handleFileUpload at once,
\* the others wait for it.  When the grouping throws, the handler ends there,
\* after its setLoading(true).
handleFolderUpload(n, top) ==
    /\ NoDialog /\ ~loading
    /\ ev' = [name |-> "handleFolderUpload", n |-> n, top |-> top,
              threw |-> groupingThrows(Picked(n, top))]
    /\ toast' = <<>>
    /\ IF n = 0
         THEN sent' = <<>> /\ UNCHANGED <<net, loading>>
         ELSE IF groupingThrows(Picked(n, top))
           THEN sent' = <<>> /\ loading' = TRUE /\ UNCHANGED net
           ELSE LET groups == filesByPath(Picked(n, top))
                IN  /\ sent' = <<uploadRequest(groups[1].files, groups[1].path,
                                               currentFolder, Tail(groups),
                                               "folder", <<>>)>>
                    /\ RoomToUpload(sent')
                    /\ net' = AddAll(net, sent')
                    /\ loading' = TRUE
    /\ UNCHANGED <<viewVars, nav, gesture>>
    /\ UNCHANGED <<folderDialogVars, moveDialogVars, dragVars, srvVars>>
    /\ UNCHANGED <<deleteDialogVars, pageVars>>

\* handleDrop: the file manager's onDrop when the drop carries files.  Nothing
\* disables the drop area while loading.
handleDrop(n) ==
    /\ NoDialog /\ n > 0
    /\ dragOver' = FALSE
    /\ ev' = [name |-> "handleDrop", n |-> n]
    /\ toast' = <<>>
    /\ sent' = <<uploadRequest(Selection(n), NoPath, currentFolder,
                               <<>>, "drop", <<>>)>>
    /\ RoomToUpload(sent')
    /\ net' = AddAll(net, sent')
    /\ loading' = TRUE
    /\ UNCHANGED <<viewVars, nav, gesture, draggedItem, dropTarget>>
    /\ UNCHANGED <<folderDialogVars, moveDialogVars, srvVars>>
    /\ UNCHANGED <<deleteDialogVars, pageVars>>

\* (mutant) the card's onDrop asks first whether an item is being dragged.
onDrop_itemFirst(n) ==
    IF draggedItem # NoItem THEN handleDropOnRoot ELSE handleDrop(n)

\* onDrop of the file-manager card, for a drop that carries n files
\* (e.dataTransfer.files.length): files go to handleDrop, anything else to
\* handleDropOnRoot.
onDrop(n) == IF n > 0 THEN handleDrop(n) ELSE handleDropOnRoot

\* (mutant) successCount++ before the await: a failure counts as a success.
countSuccess_early(successCount, ok) == successCount + 1

\* await axios.post(...); successCount++;
countSuccess(successCount, ok) == IF ok THEN successCount + 1 ELSE successCount
\* catch: errorCount++;
countError(errorCount, ok) == IF ok THEN errorCount ELSE errorCount + 1

\* (mutant) the catch block sends the failed file again.
nextIndex_retry(i, ok) == IF ok THEN i + 1 ELSE i

\* for (const file of files): the next file, whatever became of this one.
nextIndex(i, ok) == i + 1

\* The toasts after the loop.
uploadToasts(successCount, errorCount) ==
    (IF successCount > 0
       THEN <<[kind |-> "success", msg |-> "fileUploaded", count |-> successCount]>>
       ELSE <<>>)
    \o (IF errorCount > 0
          THEN <<[kind |-> "error", msg |-> "fileUploadFailed", count |-> errorCount]>>
          ELSE <<>>)

\* (mutant) the reloads skipped when no file was stored.
uploadReloads_onSuccess(cf, successCount) ==
    IF successCount > 0 THEN <<loadFiles(cf), loadFolders(cf), loadStats>> ELSE <<>>

\* The reloads after the loop.
uploadReloads(cf, successCount) == <<loadFiles(cf), loadFolders(cf), loadStats>>

\* The next handleFileUpload call of a folder upload, if a group is left.
nextGroup(r, act) ==
    IF r.rest = <<>> THEN <<>>
    ELSE <<uploadRequest(Head(r.rest).files, Head(r.rest).path, r.cf,
                         Tail(r.rest), r.origin, act)>>

\* handleFileUpload resumed by the response to its i-th upload request.  The
\* backend stores the file unless the account's quota is used up.
uploadDone(r, ok) ==
    /\ r \in Pending /\ r.kind = "files/upload"
    /\ ok => srvStored < MaxStored
    /\ srvStored' = IF ok THEN srvStored + 1 ELSE srvStored
    /\ LET succ == countSuccess(r.successCount, ok)
           err  == countError(r.errorCount, ok)
           log  == Append(r.log, ok)
           act  == Append(r.act, ok)
           i    == nextIndex(r.i, ok)
       IN  IF i <= Len(r.files)
             THEN \* the loop goes on
                  /\ sent' = <<[r EXCEPT !.i = i, !.successCount = succ,
                                         !.errorCount = err, !.log = log,
                                         !.act = act,
                                         !.reqs = Append(@, r.files[i])]>>
                  /\ toast' = <<>>
                  /\ UNCHANGED loading
                  /\ ev' = [name |-> "uploadDone", ok |-> ok, done |-> FALSE]
             ELSE \* after the loop; then handleFolderUpload goes on
                  /\ sent' = uploadReloads(r.cf, succ) \o nextGroup(r, act)
                  /\ toast' = uploadToasts(succ, err)
                  /\ loading' = (r.rest # <<>>)
                  /\ ev' = [name |-> "uploadDone", ok |-> ok, done |-> TRUE,
                            files |-> r.files, reqs |-> r.reqs, log |-> log,
                            act |-> act, last |-> r.rest = <<>>,
                            origin |-> r.origin]
    /\ InFlight - 1 + Len(sent') <= MaxInFlight
    /\ net' = AddAll(Remove(net, r), sent')
    /\ UNCHANGED <<viewVars, nav, gesture, srvParent, srvFileAt>>
    /\ UNCHANGED <<folderDialogVars, moveDialogVars, dragVars>>
    /\ UNCHANGED <<deleteDialogVars, pageVars>>

\* ----------------------------------------------------------- delete dialog
\* The delete button of a row: setDeleteTarget({...item, type});
\* setShowDeleteDialog(true).
openDeleteDialog(item) ==
    /\ NoDialog /\ item \in Rows
    /\ deleteTarget' = item
    /\ showDeleteDialog' = TRUE
    /\ ev' = [name |-> "openDeleteDialog", item |-> item]
    /\ Quiet
    /\ UNCHANGED <<viewVars, loading, net, nav, gesture>>
    /\ UNCHANGED <<folderDialogVars, moveDialogVars, dragVars, srvVars, pageVars>>

\* DELETE /files/delete/{id} or /folders/delete/{id}; cf is the currentFolder
\* the handler's closure holds for the reloads.
deleteRequest(item, cf) ==
    [kind |-> IF item.type = "file" THEN "files/delete" ELSE "folders/delete",
     id |-> item.id, cf |-> cf]

DeleteKinds == {"files/delete", "folders/delete"}

\* (mutant) the cancel button wired to handleDelete as well.
cancelDelete_deletes ==
    /\ showDeleteDialog
    /\ showDeleteDialog' = FALSE
    /\ ev' = [name |-> "cancelDelete"]
    /\ toast' = <<>>
    /\ sent' = <<deleteRequest(deleteTarget, currentFolder)>>
    /\ Room(sent') /\ CountOf(MutationKinds \cup DeleteKinds) < MaxMutations
    /\ net' = AddAll(net, sent')
    /\ UNCHANGED <<viewVars, loading, nav, gesture, deleteTarget>>
    /\ UNCHANGED <<folderDialogVars, moveDialogVars, dragVars, srvVars, pageVars>>

\* AlertDialogCancel, or Escape: onOpenChange(false).
cancelDelete ==
    /\ showDeleteDialog
    /\ showDeleteDialog' = FALSE
    /\ ev' = [name |-> "cancelDelete"]
    /\ Quiet
    /\ UNCHANGED <<viewVars, loading, net, nav, gesture, deleteTarget>>
    /\ UNCHANGED <<folderDialogVars, moveDialogVars, dragVars, srvVars, pageVars>>

\* handleDelete, the onClick of AlertDialogAction; the action button also
\* closes the dialog (onOpenChange(false)).
handleDelete ==
    /\ showDeleteDialog
    /\ showDeleteDialog' = FALSE
    /\ ev' = [name |-> "handleDelete", target |-> deleteTarget]
    /\ toast' = <<>>
    /\ IF deleteTarget = NoItem
         THEN sent' = <<>> /\ UNCHANGED net
         ELSE /\ sent' = <<deleteRequest(deleteTarget, currentFolder)>>
              /\ Room(sent') /\ CountOf(MutationKinds \cup DeleteKinds) < MaxMutations
              /\ net' = AddAll(net, sent')
    /\ UNCHANGED <<viewVars, loading, nav, gesture, deleteTarget>>
    /\ UNCHANGED <<folderDialogVars, moveDialogVars, dragVars, srvVars, pageVars>>

\* The backend deletes a folder with everything below it.
srvAfterDelete(r) ==
    /\ srvParent' = [f \in FolderIds |->
                        IF r.kind = "folders/delete" /\ srvIsUnder(f, r.id)
                          THEN Absent ELSE srvParent[f]]
    /\ srvFileAt' = [f \in FileIds |->
                        IF \/ r.kind = "files/delete" /\ f = r.id
                           \/ r.kind = "folders/delete" /\ srvIsUnder(srvFileAt[f], r.id)
                          THEN Absent ELSE srvFileAt[f]]
    /\ UNCHANGED srvStored

\* What the backend still has of the item (404 when it is gone).
srvHas(r) ==
    IF r.kind = "files/delete" THEN srvFileAt[r.id] # Absent
    ELSE srvParent[r.id] # Absent

\* The reloads of handleDelete.
deleteReloads(cf) == <<loadFiles(cf), loadFolders(cf), loadStats>>

\* handleDelete resumed by the response.
handleDeleteDone(r, ok) ==
    /\ r \in Pending /\ r.kind \in DeleteKinds
    /\ ok => srvHas(r)
    /\ IF ok
         THEN /\ RoomAfter(deleteReloads(r.cf))
              /\ srvAfterDelete(r)
              /\ showDeleteDialog' = FALSE
              /\ deleteTarget' = NoItem
              /\ sent' = deleteReloads(r.cf)
              /\ toast' = <<[kind |-> "success", msg |-> "deletedSuccessfully"]>>
         ELSE /\ UNCHANGED <<srvVars, deleteDialogVars>>
              /\ sent' = <<>>
              /\ toast' = <<[kind |-> "error", msg |-> "deleteFailed"]>>
    /\ net' = AddAll(Remove(net, r), sent')
    /\ ev' = [name |-> "handleDeleteDone", ok |-> ok, id |-> r.id, kind |-> r.kind]
    /\ UNCHANGED <<viewVars, loading, nav, gesture>>
    /\ UNCHANGED <<folderDialogVars, moveDialogVars, dragVars, pageVars>>

\* The backend answers a list request that is in flight.
srvAnswers(r) ==
    /\ r \in Pending /\ r.kind \in {"files/list", "folders/tree"} /\ ~Answered(r)
    /\ net' = AddAll(Remove(net, r),
                     <<[kind |-> r.kind, cf |-> r.cf,
                        resp |-> IF r.kind = "files/list"
                                   THEN srvFilesIn(r.cf) ELSE srvParent]>>)
    /\ ev' = [name |-> "srvAnswers"]
    /\ Quiet
    /\ UNCHANGED <<viewVars, loading, nav, gesture>>
    /\ UNCHANGED <<folderDialogVars, moveDialogVars, deleteDialogVars, dragVars>>
    /\ UNCHANGED <<srvVars, pageVars>>

\* ------------------------------------------------------ the password rules
\* The characters of the rules' classes, as far as the passwords tried use
\* them: of [A-Z], of [a-z], the special characters of the fourth rule, and
\* two characters of no class.
UpperChars == {"A", "B"}
LowerChars == {"a", "b", "c", "d", "e", "f"}
\* (mutant) the special characters without the exclamation mark.
SpecialChars_noBang ==
    {"@", "#", "$", "%", "^", "&", "*", "(", ")", "_", "+", "-", "=",
     "[", "]", "{", "}", "|", ";", ":", ",", ".", "<", ">", "?"}
SpecialChars ==
    {"!", "@", "#", "$", "%", "^", "&", "*", "(", ")", "_", "+", "-", "=",
     "[", "]", "{", "}", "|", ";", ":", ",", ".", "<", ">", "?"}
OtherChars == {"1", "~"}

\* regex.test(password): some character of the password is in the class.
test(class, password) == \E i \in 1..Len(password) : password[i] \in class

\* validatePassword (Login and Profile have the same one): the messages of
\* the rules the password fails, in the rules' order.
validatePassword(password) ==
    (IF Len(password) < 8 THEN <<"Minimum 8 characters">> ELSE <<>>)
    \o (IF ~test(UpperChars, password)
          THEN <<"At least one uppercase letter">> ELSE <<>>)
    \o (IF ~test(LowerChars, password)
          THEN <<"At least one lowercase letter">> ELSE <<>>)
    \o (IF ~test(SpecialChars, password)
          THEN <<"At least one special character">> ELSE <<>>)

\* The requirements of PasswordStrengthIndicator: each rule's id and whether
\* the password passes it.
requirements(password) ==
    [length |-> Len(password) >= 8,
     uppercase |-> test(UpperChars, password),
     lowercase |-> test(LowerChars, password),
     special |-> test(SpecialChars, password)]
allPassed(password) ==
    \A id \in DOMAIN requirements(password) : requirements(password)[id]

\* ------------------------------------------------------------ the Login page
\* Passwords typed or pasted into a password field: "", "abc", "Abcdef1!"
\* and "Abcdef1!?", and what one gets from them by replacing one character
\* or deleting one.
Samples ==
    { <<>>,
      <<"a", "b", "c">>,
      <<"A", "b", "c", "d", "e", "f", "1", "!">>,
      <<"A", "b", "c", "d", "e", "f", "1", "!", "?">> }
EditChars == {"a", "!", "~"}
Without(p, i) == SubSeq(p, 1, i - 1) \o SubSeq(p, i + 1, Len(p))
Edits(p) ==
    {[p EXCEPT ![i] = c] : i \in 1..Len(p), c \in EditChars}
        \cup {Without(p, i) : i \in 1..Len(p)}
Typed == Samples \cup UNION {Edits(p) : p \in Samples}

\* onChange of register-password: setRegisterData({...registerData, password});
\* setRegisterErrors({}).
setRegisterPassword(p) ==
    /\ page = "Login"
    /\ registerData' = [registerData EXCEPT !.password = p]
    /\ registerErrors' = {}
    /\ ev' = [name |-> "setRegisterPassword", from |-> registerData.password]
    /\ Quiet
    /\ UNCHANGED <<net, page, loginLoading, profileVars, adminVars, pluginsLoading>>
    /\ UNCHANGED <<dashboardVars, sessionVars, pluginVars, unmounted>>

\* onChange of register-confirm-password.
setRegisterConfirm(p) ==
    /\ page = "Login"
    /\ registerData' = [registerData EXCEPT !.confirm_password = p]
    /\ registerErrors' = {}
    /\ ev' = [name |-> "setRegisterConfirm"]
    /\ Quiet
    /\ UNCHANGED <<net, page, loginLoading, profileVars, adminVars, pluginsLoading>>
    /\ UNCHANGED <<dashboardVars, sessionVars, pluginVars, unmounted>>

\* handleLogin: the submit of the login form; the submit buttons are disabled
\* while loading.
handleLogin ==
    /\ page = "Login" /\ ~loginLoading
    /\ loginLoading' = TRUE
    /\ sent' = <<[kind |-> "auth/login", via |-> "handleLogin"]>>
    /\ Room(sent')
    /\ net' = AddAll(net, sent')
    /\ ev' = [name |-> "handleLogin"]
    /\ toast' = <<>>
    /\ UNCHANGED <<page, registerData, registerErrors>>
    /\ UNCHANGED <<profileVars, adminVars, pluginsLoading, dashboardVars>>
    /\ UNCHANGED <<sessionVars, pluginVars, unmounted>>

\* POST /auth/register with the registerData the handler's closure holds.
registerRequest(data) == [kind |-> "auth/register", password |-> data.password]

\* The registerErrors handleRegister returns early with, {} when it goes on.
registerRejected(data) ==
    IF validatePassword(data.password) # <<>>
      THEN {<<"password", validatePassword(data.password)>>}
    ELSE IF data.password # data.confirm_password
      THEN {<<"confirm", <<"Passwords do not match">> >>}
      ELSE {}

handleRegister ==
    /\ page = "Login" /\ ~loginLoading
    /\ registerErrors' = registerRejected(registerData)
    /\ ev' = [name |-> "handleRegister"]
    /\ toast' = <<>>
    /\ IF registerRejected(registerData) # {}
         THEN sent' = <<>> /\ UNCHANGED <<net, loginLoading>>
         ELSE /\ loginLoading' = TRUE
              /\ sent' = <<registerRequest(registerData)>>
              /\ Room(sent')
              /\ net' = AddAll(net, sent')
    /\ UNCHANGED <<page, registerData>>
    /\ UNCHANGED <<profileVars, adminVars, pluginsLoading, dashboardVars>>
    /\ UNCHANGED <<sessionVars, pluginVars, unmounted>>

\* (mutant) the login is attempted whatever became of the registration.
autoLogin_always(ok) == <<[kind |-> "auth/login", via |-> "handleRegister"]>>

\* The second await of handleRegister's try block: reached when the first
\* did not throw.
autoLogin(ok) ==
    IF ok THEN <<[kind |-> "auth/login", via |-> "handleRegister"]>> ELSE <<>>

\* handleRegister resumed by the response to /auth/register: the automatic
\* login on success, the catch and the finally on failure.
handleRegisterDone(r, ok) ==
    /\ r \in Pending /\ r.kind = "auth/register"
    /\ sent' = autoLogin(ok)
    /\ IF ok
         THEN /\ toast' = <<>>
              /\ UNCHANGED loginLoading
         ELSE /\ toast' = <<[kind |-> "error", msg |-> "registerFailed"]>>
              /\ loginLoading' = FALSE
    /\ net' = AddAll(Remove(net, r), sent')
    /\ ev' = [name |-> "handleRegisterDone", ok |-> ok]
    /\ UNCHANGED <<page, registerData, registerErrors>>
    /\ UNCHANGED <<profileVars, adminVars, pluginsLoading, dashboardVars>>
    /\ UNCHANGED <<sessionVars, pluginVars, unmounted>>

\* handleLogin, or handleRegister, resumed by the response to /auth/login.
\* On success setUser(user) makes the router leave the login page for the
\* Dashboard, whose effect sends its loads: the login page is unmounted and
\* its state is gone.  The finally runs in either case.
handleLoginDone(r, ok) ==
    /\ r \in Pending /\ r.kind = "auth/login"
    /\ loginLoading' = FALSE
    /\ IF ok
         THEN /\ \E account \in Accounts :
                    /\ token' = account.username
                    /\ userData' = account
                    /\ user' = account
              /\ loggedOut' = FALSE
              /\ page' = "Dashboard"
              /\ unmounted' = unmounted (+) Remove(net, r)
              /\ registerData' = [password |-> <<>>, confirm_password |-> <<>>]
              /\ registerErrors' = {}
              /\ sent' = EffectLoads(Null)
              /\ toast' = <<[kind |-> "success",
                             msg |-> IF r.via = "handleLogin"
                                       THEN "loginSuccess" ELSE "registerSuccess"]>>
         ELSE /\ UNCHANGED <<page, registerData, registerErrors, sessionVars>>
              /\ UNCHANGED unmounted
              /\ sent' = <<>>
              /\ toast' = <<[kind |-> "error",
                             msg |-> IF r.via = "handleLogin"
                                       THEN "loginFailed" ELSE "registerFailed"]>>
    /\ RoomAfter(sent')
    /\ net' = IF ok THEN AddAll(EmptyBag, sent') ELSE Remove(net, r)
    /\ ev' = [name |-> "handleLoginDone", ok |-> ok, via |-> r.via]
    /\ UNCHANGED <<profileVars, adminVars, pluginsLoading, dashboardVars>>
    /\ UNCHANGED pluginVars

\* ---------------------------------------------------------- the Profile page
\* onChange of a field of the change-password form:
\* setPasswordData({...passwordData, [field]: value}); setPasswordErrors({}).
setPasswordData(field, p) ==
    /\ page = "Profile" /\ field \in DOMAIN passwordData
    /\ passwordData' = [passwordData EXCEPT ![field] = p]
    /\ passwordErrors' = {}
    /\ ev' = [name |-> "setPasswordData", field |-> field]
    /\ Quiet
    /\ UNCHANGED <<net, page, profileLoading, loginVars, adminVars, pluginsLoading>>
    /\ UNCHANGED <<dashboardVars, sessionVars, pluginVars, unmounted>>

\* POST /auth/change-password with the passwordData the closure holds.
changePasswordRequest(data) ==
    [kind |-> "auth/change-password",
     current_password |-> data.current_password,
     new_password |-> data.new_password]

\* The passwordErrors handlePasswordChange returns early with, {} when it
\* goes on.
passwordChangeRejected(data) ==
    IF data.current_password = <<>>
      THEN {<<"current", <<"Current password is required">> >>}
    ELSE IF validatePassword(data.new_password) # <<>>
      THEN {<<"new", validatePassword(data.new_password)>>}
    ELSE IF data.new_password # data.confirm_password
      THEN {<<"confirm", <<"Passwords do not match">> >>}
    ELSE IF data.current_password = data.new_password
      THEN {<<"new", <<"New password must be different from current password">> >>}
      ELSE {}

\* The submit of the change-password form; its button is disabled while
\* loading.
handlePasswordChange ==
    /\ page = "Profile" /\ ~profileLoading
    /\ passwordErrors' = passwordChangeRejected(passwordData)
    /\ ev' = [name |-> "handlePasswordChange"]
    /\ toast' = <<>>
    /\ IF passwordChangeRejected(passwordData) # {}
         THEN sent' = <<>> /\ UNCHANGED <<net, profileLoading>>
         ELSE /\ profileLoading' = TRUE
              /\ sent' = <<changePasswordRequest(passwordData)>>
              /\ Room(sent')
              /\ net' = AddAll(net, sent')
    /\ UNCHANGED <<page, passwordData>>
    /\ UNCHANGED <<loginVars, adminVars, pluginsLoading, dashboardVars>>
    /\ UNCHANGED <<sessionVars, pluginVars, unmounted>>

\* handlePasswordChange resumed by the response; incorrect says whether the
\* backend's detail of a failure has 'incorrect' in it.
handlePasswordChangeDone(r, ok, incorrect) ==
    /\ r \in Pending /\ r.kind = "auth/change-password"
    /\ ok => ~incorrect
    /\ net' = Remove(net, r)
    /\ sent' = <<>>
    /\ profileLoading' = FALSE
    /\ passwordData' = IF ok THEN [current_password |-> <<>>, new_password |-> <<>>,
                                   confirm_password |-> <<>>]
                       ELSE passwordData
    /\ passwordErrors' = IF incorrect
                           THEN {<<"current", <<"Current password is incorrect">> >>}
                           ELSE passwordErrors
    /\ toast' = IF ok THEN <<[kind |-> "success", msg |-> "passwordChanged"]>>
                ELSE IF incorrect THEN <<>>
                ELSE <<[kind |-> "error", msg |-> "passwordChangeFailed"]>>
    /\ ev' = [name |-> "handlePasswordChangeDone", ok |-> ok]
    /\ UNCHANGED <<page, loginVars, adminVars, pluginsLoading, dashboardVars>>
    /\ UNCHANGED <<sessionVars, pluginVars, unmounted>>

\* ---------------------------------------------------------- the admin panel
\* The accounts the backend lists, by id; each row has a change-password
\* button.
SrvUsers == {1, 2}

\* loadUsers resumed by the response.
loadUsersDone(r, ok) ==
    /\ r \in Pending /\ r.kind = "admin/users"
    /\ net' = Remove(net, r)
    /\ sent' = <<>>
    /\ users' = IF ok THEN SrvUsers ELSE users
    /\ usersLoading' = FALSE
    /\ toast' = IF ok THEN <<>>
                ELSE <<[kind |-> "error", msg |-> "Failed to load users"]>>
    /\ ev' = [name |-> "loadUsers", ok |-> ok]
    /\ UNCHANGED <<showPasswordDialog, selectedUser, newPassword>>
    /\ UNCHANGED <<page, loginVars, profileVars, pluginsLoading, dashboardVars>>
    /\ UNCHANGED <<sessionVars, pluginVars, unmounted>>

\* The change-password button of a row of the table, which is rendered only
\* when not loading: setSelectedUser(u); setShowPasswordDialog(true).
openPasswordDialog(u) ==
    /\ page = "AdminPanel" /\ ~usersLoading /\ ~showPasswordDialog
    /\ u \in users
    /\ selectedUser' = u
    /\ showPasswordDialog' = TRUE
    /\ ev' = [name |-> "openPasswordDialog"]
    /\ Quiet
    /\ UNCHANGED <<net, users, usersLoading, newPassword>>
    /\ UNCHANGED <<page, loginVars, profileVars, pluginsLoading, dashboardVars>>
    /\ UNCHANGED <<sessionVars, pluginVars, unmounted>>

\* onChange of the dialog's input.
setNewPassword(p) ==
    /\ page = "AdminPanel" /\ showPasswordDialog
    /\ newPassword' = p
    /\ ev' = [name |-> "setNewPassword"]
    /\ Quiet
    /\ UNCHANGED <<net, users, usersLoading, showPasswordDialog, selectedUser>>
    /\ UNCHANGED <<page, loginVars, profileVars, pluginsLoading, dashboardVars>>
    /\ UNCHANGED <<sessionVars, pluginVars, unmounted>>

\* Cancel, or onOpenChange(false): setShowPasswordDialog(false) and no more.
closePasswordDialog ==
    /\ page = "AdminPanel" /\ showPasswordDialog
    /\ showPasswordDialog' = FALSE
    /\ ev' = [name |-> "closePasswordDialog"]
    /\ Quiet
    /\ UNCHANGED <<net, users, usersLoading, selectedUser, newPassword>>
    /\ UNCHANGED <<page, loginVars, profileVars, pluginsLoading, dashboardVars>>
    /\ UNCHANGED <<sessionVars, pluginVars, unmounted>>

\* POST /admin/change-password.
adminPasswordRequest(u, p) ==
    [kind |-> "admin/change-password", user_id |-> u, new_password |-> p]

\* if (!selectedUser || !newPassword) return;
adminPasswordIgnored(u, p) == u = Null \/ p = <<>>

\* The dialog's submit button, which nothing disables.
handleChangePassword ==
    /\ page = "AdminPanel" /\ showPasswordDialog
    /\ ev' = [name |-> "handleChangePassword"]
    /\ toast' = <<>>
    /\ IF adminPasswordIgnored(selectedUser, newPassword)
         THEN sent' = <<>> /\ UNCHANGED net
         ELSE /\ sent' = <<adminPasswordRequest(selectedUser, newPassword)>>
              /\ Room(sent')
              /\ net' = AddAll(net, sent')
    /\ UNCHANGED <<page, adminVars>>
    /\ UNCHANGED <<loginVars, profileVars, pluginsLoading, dashboardVars>>
    /\ UNCHANGED <<sessionVars, pluginVars, unmounted>>

\* handleChangePassword resumed by the response.
handleChangePasswordDone(r, ok) ==
    /\ r \in Pending /\ r.kind = "admin/change-password"
    /\ net' = Remove(net, r)
    /\ sent' = <<>>
    /\ showPasswordDialog' = IF ok THEN FALSE ELSE showPasswordDialog
    /\ newPassword' = IF ok THEN <<>> ELSE newPassword
    /\ selectedUser' = IF ok THEN Null ELSE selectedUser
    /\ toast' = IF ok THEN <<[kind |-> "success",
                              msg |-> "Password changed successfully"]>>
                ELSE <<[kind |-> "error", msg |-> "Failed to change password"]>>
    /\ ev' = [name |-> "handleChangePasswordDone", ok |-> ok]
    /\ UNCHANGED <<users, usersLoading>>
    /\ UNCHANGED <<page, loginVars, profileVars, pluginsLoading, dashboardVars>>
    /\ UNCHANGED <<sessionVars, pluginVars, unmounted>>

\* The role button of a row: POST /admin/change-role, and loadUsers() again
\* once it succeeded.
handleToggleAdmin(u) ==
    /\ page = "AdminPanel" /\ ~usersLoading /\ ~showPasswordDialog
    /\ u \in users
    /\ sent' = <<[kind |-> "admin/change-role", user_id |-> u]>>
    /\ Room(sent') /\ CountOf({"admin/change-role"}) < MaxMutations
    /\ net' = AddAll(net, sent')
    /\ ev' = [name |-> "handleToggleAdmin"]
    /\ toast' = <<>>
    /\ UNCHANGED <<page, adminVars>>
    /\ UNCHANGED <<loginVars, profileVars, pluginsLoading, dashboardVars>>
    /\ UNCHANGED <<sessionVars, pluginVars, unmounted>>

handleToggleAdminDone(r, ok) ==
    /\ r \in Pending /\ r.kind = "admin/change-role"
    /\ sent' = IF ok THEN <<loadUsers>> ELSE <<>>
    /\ net' = AddAll(Remove(net, r), sent')
    /\ usersLoading' = IF ok THEN TRUE ELSE usersLoading
    /\ toast' = IF ok THEN <<[kind |-> "success",
                              msg |-> "User role updated successfully"]>>
                ELSE <<[kind |-> "error", msg |-> "Failed to change role"]>>
    /\ ev' = [name |-> "handleToggleAdminDone", ok |-> ok]
    /\ UNCHANGED <<users, showPasswordDialog, selectedUser, newPassword>>
    /\ UNCHANGED <<page, loginVars, profileVars, pluginsLoading, dashboardVars>>
    /\ UNCHANGED <<sessionVars, pluginVars, unmounted>>

\* ------------------------------------------------------ plugin management
\* loadPlugins resumed by the response.
loadPluginsDone(r, ok) ==
    /\ r \in Pending /\ r.kind = "admin/plugins"
    /\ net' = Remove(net, r)
    /\ sent' = <<>>
    /\ pluginsLoading' = FALSE
    /\ plugins' = IF ok THEN <<srvPlugins>> ELSE plugins
    /\ toast' = IF ok THEN <<>>
                ELSE <<[kind |-> "error", msg |-> "Failed to load plugins"]>>
    /\ ev' = [name |-> "loadPlugins", ok |-> ok]
    /\ UNCHANGED <<page, loginVars, profileVars, adminVars, dashboardVars>>
    /\ UNCHANGED <<sessionVars, editingPlugin, srvPlugins, unmounted>>

\* What a handler of the plugin page leaves alone.
notPluginVars == <<page, loginVars, profileVars, adminVars, dashboardVars,
                   sessionVars, unmounted>>
\* The cards are rendered when loading is false.
PluginCards ==
    IF page = "PluginManagement" /\ ~pluginsLoading THEN Range(plugins) ELSE {}

\* PUT /admin/plugins/{name} with the body a handler gives it.
putPlugin(name, body, via) ==
    [kind |-> "admin/plugins/put", name |-> name, body |-> body, via |-> via]
\* The backend sets the fields the body names.
srvPut(plugin, body) ==
    [plugin EXCEPT
        !.enabled = IF "enabled" \in DOMAIN body THEN body.enabled ELSE @,
        !.settings = IF "settings" \in DOMAIN body THEN body.settings ELSE @]

\* The Switch of a card: togglePlugin(plugin.name, plugin.enabled).
togglePlugin(plugin) ==
    /\ plugin \in PluginCards
    /\ sent' = <<putPlugin(plugin.name, [enabled |-> ~plugin.enabled],
                           "togglePlugin")>>
    /\ Room(sent')
    /\ net' = AddAll(net, sent')
    /\ ev' = [name |-> "togglePlugin"]
    /\ toast' = <<>>
    /\ UNCHANGED <<pluginVars, pluginsLoading, notPluginVars>>

\* togglePlugin resumed by the response: loadPlugins() on success, which
\* sets loading before its request.
togglePluginDone(r, ok) ==
    /\ r \in Pending /\ r.kind = "admin/plugins/put" /\ r.via = "togglePlugin"
    /\ srvPlugins' = IF ok THEN srvPut(srvPlugins, r.body) ELSE srvPlugins
    /\ sent' = IF ok THEN <<loadPlugins>> ELSE <<>>
    /\ pluginsLoading' = IF ok THEN TRUE ELSE pluginsLoading
    /\ net' = AddAll(Remove(net, r), sent')
    /\ toast' = IF ok THEN <<[kind |-> "success", msg |-> "pluginUpdated"]>>
                ELSE <<[kind |-> "error", msg |-> "Failed to update plugin"]>>
    /\ ev' = [name |-> "togglePluginDone", ok |-> ok]
    /\ UNCHANGED <<plugins, editingPlugin, notPluginVars>>

\* The Edit button of a card that is not being edited:
\* setEditingPlugin(plugin), the plugin as the list holds it.
editPlugin(plugin) ==
    /\ plugin \in PluginCards /\ editingPlugin.name # plugin.name
    /\ editingPlugin' = plugin
    /\ ev' = [name |-> "editPlugin"]
    /\ Quiet
    /\ UNCHANGED <<net, plugins, srvPlugins, pluginsLoading, notPluginVars>>

\* onChange of the Textarea; blocked is the list the typed text splits into.
setBlockedExtensions(blocked) ==
    /\ \E plugin \in PluginCards : editingPlugin.name = plugin.name
    /\ editingPlugin' =
           [editingPlugin EXCEPT !.settings.blocked_extensions = blocked]
    /\ ev' = [name |-> "setBlockedExtensions"]
    /\ Quiet
    /\ UNCHANGED <<net, plugins, srvPlugins, pluginsLoading, notPluginVars>>

\* The Cancel button: setEditingPlugin(null).
cancelEditPlugin ==
    /\ \E plugin \in PluginCards : editingPlugin.name = plugin.name
    /\ editingPlugin' = NoPlugin
    /\ ev' = [name |-> "cancelEditPlugin"]
    /\ Quiet
    /\ UNCHANGED <<net, plugins, srvPlugins, pluginsLoading, notPluginVars>>

\* The Save button of the card being edited:
\* updatePluginSettings(plugin.name, editingPlugin.settings).
updatePluginSettings ==
    /\ \E plugin \in PluginCards :
          /\ editingPlugin.name = plugin.name
          /\ sent' = <<putPlugin(plugin.name,
                                 [enabled |-> editingPlugin.enabled,
                                  settings |-> editingPlugin.settings],
                                 "updatePluginSettings")>>
    /\ Room(sent')
    /\ net' = AddAll(net, sent')
    /\ ev' = [name |-> "updatePluginSettings"]
    /\ toast' = <<>>
    /\ UNCHANGED <<pluginVars, pluginsLoading, notPluginVars>>

\* updatePluginSettings resumed by the response: on success
\* setEditingPlugin(null) and loadPlugins().
updatePluginSettingsDone(r, ok) ==
    /\ r \in Pending /\ r.kind = "admin/plugins/put"
    /\ r.via = "updatePluginSettings"
    /\ srvPlugins' = IF ok THEN srvPut(srvPlugins, r.body) ELSE srvPlugins
    /\ editingPlugin' = IF ok THEN NoPlugin ELSE editingPlugin
    /\ sent' = IF ok THEN <<loadPlugins>> ELSE <<>>
    /\ pluginsLoading' = IF ok THEN TRUE ELSE pluginsLoading
    /\ net' = AddAll(Remove(net, r), sent')
    /\ toast' = IF ok THEN <<[kind |-> "success", msg |-> "pluginUpdated"]>>
                ELSE <<[kind |-> "error",
                        msg |-> "Failed to update plugin settings"]>>
    /\ ev' = [name |-> "updatePluginSettingsDone", ok |-> ok]
    /\ UNCHANGED <<plugins, notPluginVars>>

\* ------------------------------------------------------ the App's session
\* getAuthHeader(): the header every request but /auth/login and
\* /auth/register is sent with, read from localStorage as the request is
\* sent.  Without a stored token the template gives "Bearer null".
getAuthHeader == [Authorization |-> <<"Bearer", token>>]
BearerNull == [Authorization |-> <<"Bearer", NoToken>>]
PublicKinds == {"auth/login", "auth/register"}

\* (mutant) the admin route lets every logged-in user through.
Route_anyUser(target, u) ==
    IF u = NoUser THEN "Login"
    ELSE IF target = "Login" THEN "Dashboard"
    ELSE IF target = "PluginManagement" /\ ~u.is_super_admin THEN "Dashboard"
    ELSE target

\* The page the router ends on for the location target while the App's user
\* is u: /login redirects to / when there is a user; ProtectedRoute,
\* AdminRoute and SuperAdminRoute redirect to /login without a user, and
\* the latter two to / when the user lacks the role.
Route(target, u) ==
    IF u = NoUser THEN "Login"
    ELSE IF target = "Login" THEN "Dashboard"
    ELSE IF target = "AdminPanel" /\ u.role # "admin" THEN "Dashboard"
    ELSE IF target = "PluginManagement" /\ ~u.is_super_admin THEN "Dashboard"
    ELSE target

\* The effect of App: setUser(JSON.parse(userData)) if (token && userData).
restoreUser(tok, data) ==
    IF tok # NoToken /\ data # NoUser THEN data ELSE NoUser

\* The router shows page p in place of the current one: p is rendered for
\* the first time and its effect sends its loads; the page that was shown is
\* unmounted, and the requests of its handlers stay in flight.
Shown(p) ==
    /\ page' = p
    /\ files' = {} /\ folders' = {} /\ currentFolder' = Null
    /\ breadcrumb' = <<>>
    /\ stats' = [file_count |-> 0, folder_count |-> 0]
    /\ loading' = FALSE
    /\ newFolderName' = <<>> /\ showFolderDialog' = FALSE
    /\ showDeleteDialog' = FALSE /\ deleteTarget' = NoItem
    /\ showMoveDialog' = FALSE /\ moveTarget' = NoItem
    /\ moveDestination' = Null
    /\ dragOver' = FALSE /\ draggedItem' = NoItem /\ dropTarget' = Null
    /\ nav' = "start" /\ gesture' = "none"
    /\ registerData' = [password |-> <<>>, confirm_password |-> <<>>]
    /\ registerErrors' = {} /\ loginLoading' = FALSE
    /\ passwordData' = [current_password |-> <<>>, new_password |-> <<>>,
                        confirm_password |-> <<>>]
    /\ passwordErrors' = {} /\ profileLoading' = FALSE
    /\ users' = {} /\ usersLoading' = (p = "AdminPanel")
    /\ showPasswordDialog' = FALSE /\ selectedUser' = Null
    /\ newPassword' = <<>>
    /\ pluginsLoading' = (p = "PluginManagement")
    /\ plugins' = <<>> /\ editingPlugin' = NoPlugin
    /\ net' = AddAll(EmptyBag, MountRequests(p))

\* The pages' own state and requests, when the router keeps the page.
mountedVars == <<page, loginVars, profileVars, adminVars, pluginsLoading,
                 plugins, editingPlugin, viewVars, loading, folderDialogVars,
                 moveDialogVars, deleteDialogVars, dragVars, nav, gesture>>

\* The buttons of the pages' headers: navigate('/profile') and
\* navigate('/admin') on the Dashboard (the latter rendered for an admin),
\* the back buttons of the other pages.  navigate('/') on the Dashboard
\* itself changes nothing.
Links ==
    CASE page = "Dashboard" ->
            {"Profile"} \cup (IF user.role = "admin" THEN {"AdminPanel"} ELSE {})
      [] page \in {"Profile", "AdminPanel"} -> {"Dashboard"}
      [] page = "PluginManagement" -> {"AdminPanel"}
      [] OTHER -> {}

navigate(target) ==
    /\ target \in Links
    /\ Shown(Route(target, user))
    /\ unmounted' = unmounted (+) net
    /\ sent' = MountRequests(page')
    /\ ev' = [name |-> "navigate", to |-> target]
    /\ toast' = <<>>
    /\ UNCHANGED <<srvVars, sessionVars, srvPlugins>>

\* The browser loads the application at a location (an address typed, a
\* bookmark, a reload): the App is constructed, its effect restores the user
\* from localStorage, and the router shows the page.  The responses to the
\* requests of the document that was left are never delivered.
openUrl(target) ==
    /\ user' = restoreUser(token, userData)
    /\ Shown(Route(target, user'))
    /\ unmounted' = EmptyBag
    /\ sent' = MountRequests(page')
    /\ ev' = [name |-> "openUrl", to |-> target]
    /\ toast' = <<>>
    /\ UNCHANGED <<srvVars, token, userData, loggedOut, srvPlugins>>

\* The logout button of the Dashboard: both items removed, setUser(null),
\* navigate('/login').
handleLogout ==
    /\ page = "Dashboard"
    /\ token' = NoToken
    /\ userData' = NoUser
    /\ user' = NoUser
    /\ loggedOut' = TRUE
    /\ Shown("Login")
    /\ unmounted' = unmounted (+) net
    /\ sent' = <<>>
    /\ ev' = [name |-> "handleLogout"]
    /\ toast' = <<>>
    /\ UNCHANGED <<srvVars, srvPlugins>>

\* The language select of Profile, when another language is chosen:
\* POST /user/language; user is the prop the closure holds.
handleLanguageChange(newLang) ==
    /\ page = "Profile" /\ newLang # user.language
    /\ sent' = <<[kind |-> "user/language", language |-> newLang,
                  user |-> user]>>
    /\ Room(sent')
    /\ net' = AddAll(net, sent')
    /\ ev' = [name |-> "handleLanguageChange", language |-> newLang]
    /\ toast' = <<>>
    /\ UNCHANGED <<mountedVars, srvVars, sessionVars, srvPlugins, unmounted>>

\* (mutant) the catch block ends the session.
languageFailed_clearsSession(tok) == NoToken

\* The catch block of handleLanguageChange: a toast, the token stays.
languageFailed(tok) == tok

\* handleLanguageChange resumed by the response, whether Profile is still
\* shown or not: on success the 'user' item and the App's user become the
\* closure's user with the new language, and the router renders again for
\* the new user.
handleLanguageChangeDone(r, ok) ==
    /\ r \in Pending \cup BagToSet(unmounted) /\ r.kind = "user/language"
    /\ LET updatedUser == [r.user EXCEPT !.language = r.language]
           now == IF ok THEN updatedUser ELSE user
           rest == IF r \in Pending THEN Remove(net, r) ELSE net
           gone == IF r \in Pending THEN unmounted ELSE Remove(unmounted, r)
       IN  /\ userData' = IF ok THEN updatedUser ELSE userData
           /\ user' = now
           /\ token' = IF ok THEN token ELSE languageFailed(token)
           /\ IF Route(page, now) = page
                THEN /\ net' = rest /\ unmounted' = gone
                     /\ sent' = <<>>
                     /\ UNCHANGED mountedVars
                ELSE /\ page' = Route(page, now)
                     /\ sent' = MountRequests(page')
                     /\ net' = AddAll(EmptyBag, sent')
                     /\ unmounted' = gone (+) rest
                     /\ UNCHANGED <<loginVars, profileVars, adminVars,
                                    pluginsLoading, plugins, editingPlugin,
                                    viewVars, loading, folderDialogVars,
                                    moveDialogVars, deleteDialogVars, dragVars,
                                    nav, gesture>>
    /\ toast' = IF ok THEN <<[kind |-> "success", msg |-> "languageUpdated"]>>
                ELSE <<[kind |-> "error", msg |-> "Failed to update language"]>>
    /\ ev' = [name |-> "handleLanguageChangeDone", ok |-> ok]
    /\ UNCHANGED <<srvVars, loggedOut, srvPlugins>>

\* A loader of an unmounted page resumed by the response: its setState calls
\* have no component to act on.
LoaderKinds == {"files/list", "folders/tree", "user/stats",
                "folders/breadcrumb", "admin/users", "admin/plugins"}
unmountedLoadDone(r) ==
    /\ r \in BagToSet(unmounted) /\ r.kind \in LoaderKinds
    /\ unmounted' = Remove(unmounted, r)
    /\ sent' = <<>> /\ toast' = <<>>
    /\ ev' = [name |-> "unmountedLoadDone", kind |-> r.kind]
    /\ UNCHANGED <<mountedVars, net, srvVars, sessionVars, srvPlugins>>

\* handleFileUpload of an unmounted Dashboard resumed by the response: the
\* loop and the reloads after it go on as in uploadDone.
unmountedUploadDone(r, ok) ==
    /\ r \in BagToSet(unmounted) /\ r.kind = "files/upload"
    /\ ok => srvStored < MaxStored
    /\ srvStored' = IF ok THEN srvStored + 1 ELSE srvStored
    /\ LET succ == countSuccess(r.successCount, ok)
           err  == countError(r.errorCount, ok)
           i    == nextIndex(r.i, ok)
       IN  IF i <= Len(r.files)
             THEN /\ sent' = <<[r EXCEPT !.i = i, !.successCount = succ,
                                         !.errorCount = err,
                                         !.log = Append(@, ok),
                                         !.act = Append(@, ok),
                                         !.reqs = Append(@, r.files[i])]>>
                  /\ toast' = <<>>
             ELSE /\ sent' = uploadReloads(r.cf, succ)
                                \o nextGroup(r, Append(r.act, ok))
                  /\ toast' = uploadToasts(succ, err)
    /\ unmounted' = AddAll(Remove(unmounted, r), sent')
    /\ ev' = [name |-> "unmountedUploadDone", ok |-> ok]
    /\ UNCHANGED <<mountedVars, net, srvParent, srvFileAt, sessionVars,
                   srvPlugins>>

\* ---------------------------------------------------------- specifications
\* Navigation alone: the backend content never changes.
NextNav ==
    \/ \E id \in FolderIds \cup {Null} : Navigate(id)
    \/ LoadersDone

SpecNav == Init /\ [][NextNav]_vars

\* Drag and drop of the rows of the current folder.
NextDrag ==
    \/ ListLoadersDone
    \/ \E item \in Rows : handleDragStart(item)
    \/ handleDragEnd
    \/ \E id \in FolderIds : handleDragOverItem(id)
    \/ handleDragLeaveItem
    \/ \E id \in FolderIds : handleDropOnFolder(id)
    \/ handleDropOnRoot
    \/ \E r \in Pending, ok \in BOOLEAN : dropMoveDone(r, ok)

SpecDrag == Init /\ [][NextDrag]_vars

\* Drag gestures as the browser delivers them: dragstart when no drag is under
\* way, dragover, dragleave and drop during a drag, dragend after the drop or
\* when the drag is given up.  The responses come at any time.
NextGesture ==
    \/ ListLoadersDone
    \/ gesture # "dragging" /\ gesture # "dropped"
          /\ \E item \in Rows : handleDragStart(item)
    \/ gesture = "dragging" /\ \E id \in FolderIds : handleDragOverItem(id)
    \/ gesture = "dragging" /\ handleDragLeaveItem
    \/ gesture = "dragging" /\ \E id \in FolderIds : handleDropOnFolder(id)
    \/ gesture = "dragging" /\ handleDropOnRoot
    \/ gesture \in {"dragging", "dropped"} /\ handleDragEnd
    \/ \E r \in Pending, ok \in BOOLEAN : dropMoveDone(r, ok)

SpecGesture == Init /\ [][NextGesture]_vars

\* The create-folder dialog.
NextCreate ==
    \/ ListLoadersDone
    \/ openFolderDialog
    \/ closeFolderDialog
    \/ \E name \in Names : setNewFolderName(name)
    \/ handleCreateFolder
    \/ \E r \in Pending, ok \in BOOLEAN : handleCreateFolderDone(r, ok)

SpecCreate == Init /\ [][NextCreate]_vars

\* The folder picker alone, for the whole tree of the chosen directory.
NextFolderUpload ==
    \/ ListLoadersDone
    \/ \E n \in 0..Len(Tree), top \in Tops : handleFolderUpload(n, top)
    \/ \E r \in Pending, ok \in BOOLEAN : uploadDone(r, ok)

SpecFolderUpload == Init /\ [][NextFolderUpload]_vars

\* The file-manager card as a drop area, for rows dragged and for files.
NextDropArea ==
    \/ ListLoadersDone
    \/ \E item \in Rows : handleDragStart(item)
    \/ handleDragEnd
    \/ \E n \in Sizes : onDrop(n)
    \/ \E r \in Pending, ok \in BOOLEAN : dropMoveDone(r, ok)
    \/ \E r \in Pending, ok \in BOOLEAN : uploadDone(r, ok)

SpecDropArea == Init /\ [][NextDropArea]_vars

\* Uploads: the file picker, the folder picker, a drop of files.
NextUpload ==
    \/ ListLoadersDone
    \/ handleDragOver
    \/ handleDragLeave
    \/ \E n \in Sizes : onChangeFiles(n)
    \/ \E n \in Sizes, top \in Tops : handleFolderUpload(n, top)
    \/ \E n \in Sizes : handleDrop(n)
    \/ \E r \in Pending, ok \in BOOLEAN : uploadDone(r, ok)

SpecUpload == Init /\ [][NextUpload]_vars

\* The move dialog.
NextMove ==
    \/ ListLoadersDone
    \/ \E item \in Rows : openMoveDialog(item)
    \/ \E dest \in FolderIds \cup {Null} : selectDestination(dest)
    \/ closeMoveDialog
    \/ handleMove
    \/ \E r \in Pending, ok \in BOOLEAN : handleMoveDone(r, ok)

SpecMove == Init /\ [][NextMove]_vars

\* A move by either way: a row dropped on a folder or on the card, or the
\* move dialog.
NextMoves ==
    \/ ListLoadersDone
    \/ \E item \in Rows : handleDragStart(item)
    \/ \E id \in FolderIds : handleDropOnFolder(id)
    \/ handleDropOnRoot
    \/ \E r \in Pending, ok \in BOOLEAN : dropMoveDone(r, ok)
    \/ \E item \in Rows : openMoveDialog(item)
    \/ \E dest \in FolderIds \cup {Null} : selectDestination(dest)
    \/ handleMove
    \/ \E r \in Pending, ok \in BOOLEAN : handleMoveDone(r, ok)

SpecMoves == Init /\ [][NextMoves]_vars

\* The password field of the register form, typed and submitted with an empty
\* confirmation.
NextPassword ==
    \/ \E p \in Typed : setRegisterPassword(p)
    \/ handleRegister

SpecPassword == InitPage("Login") /\ [][NextPassword]_vars

\* The three forms that submit a new password: the register form, the
\* change-password form of the profile and the dialog of the admin panel, each
\* on its own page.
FormPages == {"Login", "Profile", "AdminPanel"}
NextForms ==
    \/ \E p \in Samples : setRegisterPassword(p)
    \/ \E p \in Samples : setRegisterConfirm(p)
    \/ handleRegister
    \/ \E r \in Pending, ok \in BOOLEAN : handleRegisterDone(r, ok)
    \/ \E r \in Pending, ok \in BOOLEAN : handleLoginDone(r, ok)
    \/ \E field \in DOMAIN passwordData, p \in Samples : setPasswordData(field, p)
    \/ handlePasswordChange
    \/ \E r \in Pending, ok, incorrect \in BOOLEAN :
          handlePasswordChangeDone(r, ok, incorrect)
    \/ \E r \in Pending, ok \in BOOLEAN : loadUsersDone(r, ok)
    \/ \E u \in SrvUsers : openPasswordDialog(u)
    \/ \E p \in Samples : setNewPassword(p)
    \/ closePasswordDialog
    \/ handleChangePassword
    \/ \E r \in Pending, ok \in BOOLEAN : handleChangePasswordDone(r, ok)

SpecForms == (\E p \in FormPages : InitPage(p)) /\ [][NextForms]_vars

\* Every handler that sets a loading flag, each on its page, with the
\* responses it waits for.  A successful login opens the Dashboard.  An
\* upload is started while no other is in flight, so that the bound on the
\* requests in flight never keeps a response from being delivered.
Passwords == {<<"a", "b", "c">>, <<"A", "b", "c", "d", "e", "f", "1", "!">>}
OnDashboard(A) == page = "Dashboard" /\ CountOf({"files/upload"}) = 0 /\ A
NextLoading ==
    \/ handleLogin
    \/ \E p \in Passwords : setRegisterPassword(p)
    \/ \E p \in Passwords : setRegisterConfirm(p)
    \/ handleRegister
    \/ \E r \in Pending, ok \in BOOLEAN : handleRegisterDone(r, ok)
    \/ \E r \in Pending, ok \in BOOLEAN : handleLoginDone(r, ok)
    \/ \E r \in Pending, ok \in BOOLEAN : loadFilesDone(r, ok)
    \/ \E r \in Pending, ok \in BOOLEAN : loadFoldersDone(r, ok)
    \/ \E r \in Pending, ok \in BOOLEAN : loadStatsDone(r, ok)
    \/ OnDashboard(\E n \in Sizes : onChangeFiles(n))
    \/ OnDashboard(\E n \in Sizes, top \in Tops : handleFolderUpload(n, top))
    \/ OnDashboard(\E n \in Sizes : handleDrop(n))
    \/ \E r \in Pending, ok \in BOOLEAN : uploadDone(r, ok)
    \/ \E field \in DOMAIN passwordData, p \in Passwords : setPasswordData(field, p)
    \/ handlePasswordChange
    \/ \E r \in Pending, ok, incorrect \in BOOLEAN :
          handlePasswordChangeDone(r, ok, incorrect)
    \/ \E r \in Pending, ok \in BOOLEAN : loadUsersDone(r, ok)
    \/ \E u \in SrvUsers : handleToggleAdmin(u)
    \/ \E r \in Pending, ok \in BOOLEAN : handleToggleAdminDone(r, ok)
    \/ \E r \in Pending, ok \in BOOLEAN : loadPluginsDone(r, ok)

\* Every request gets its response in the end.
Responds ==
    /\ WF_vars(\E r \in Pending, ok \in BOOLEAN : handleRegisterDone(r, ok))
    /\ WF_vars(\E r \in Pending, ok \in BOOLEAN : handleLoginDone(r, ok))
    /\ WF_vars(\E r \in Pending, ok \in BOOLEAN : loadFilesDone(r, ok))
    /\ WF_vars(\E r \in Pending, ok \in BOOLEAN : loadFoldersDone(r, ok))
    /\ WF_vars(\E r \in Pending, ok \in BOOLEAN : loadStatsDone(r, ok))
    /\ WF_vars(\E r \in Pending, ok \in BOOLEAN : uploadDone(r, ok))
    /\ WF_vars(\E r \in Pending, ok, incorrect \in BOOLEAN :
                  handlePasswordChangeDone(r, ok, incorrect))
    /\ WF_vars(\E r \in Pending, ok \in BOOLEAN : loadUsersDone(r, ok))
    /\ WF_vars(\E r \in Pending, ok \in BOOLEAN : handleToggleAdminDone(r, ok))
    /\ WF_vars(\E r \in Pending, ok \in BOOLEAN : loadPluginsDone(r, ok))

SpecLoading ==
    (\E p \in Pages : InitPage(p)) /\ [][NextLoading]_vars /\ Responds

\* Navigation and the delete dialog, on an account with nested folders.  The
\* list requests may be answered by the backend well before their responses
\* are delivered; every list and stats response is a success.
NextDelete ==
    \/ \E id \in FolderIds \cup {Null} : Navigate(id)
    \/ \E r \in Pending : loadFilesDone(r, TRUE)
    \/ \E r \in Pending : loadFoldersDone(r, TRUE)
    \/ \E r \in Pending : loadStatsDone(r, TRUE)
    \/ \E r \in Pending, ok \in BOOLEAN : loadBreadcrumbDone(r, ok)
    \/ \E r \in Pending : srvAnswers(r)
    \/ \E item \in Rows : openDeleteDialog(item)
    \/ cancelDelete
    \/ handleDelete
    \/ \E r \in Pending, ok \in BOOLEAN : handleDeleteDone(r, ok)

SpecDelete == InitWith(NestedParent, NestedFileAt) /\ [][NextDelete]_vars

\* The whole page: every handler in any interleaving.  The properties below
\* are checked under the specification of the feature each is about, which
\* keeps the other features' handlers still.
\* The session: login, the pages' links, a location opened in the browser,
\* logout, a language change, and the loads of the Dashboard.  The user
\* leaves a page while at most MaxLeftBehind requests are outstanding.
Idle == BagCardinality(unmounted) + InFlight <= MaxLeftBehind
NextSession ==
    \/ handleLogin
    \/ \E r \in Pending, ok \in BOOLEAN : handleLoginDone(r, ok)
    \/ Idle /\ \E target \in Pages : navigate(target)
    \/ Idle /\ \E target \in Pages : openUrl(target)
    \/ Idle /\ handleLogout
    \/ \E newLang \in Languages : handleLanguageChange(newLang)
    \/ \E r \in Pending \cup BagToSet(unmounted), ok \in BOOLEAN :
          handleLanguageChangeDone(r, ok)
    \/ page = "Dashboard" /\ ListLoadersDone
    \/ \E r \in BagToSet(unmounted) : unmountedLoadDone(r)

\* The application opened with an empty localStorage, or with the session an
\* earlier login stored.
InitSession ==
    \E account \in Accounts \cup {NoUser}, target \in Pages :
        /\ DashboardFields
        /\ srvParent = InitParent /\ srvFileAt = InitFileAt /\ srvStored = 0
        /\ nav = "start" /\ gesture = "none"
        /\ token = account.username /\ userData = account
        /\ user = restoreUser(token, userData)
        /\ loggedOut = FALSE
        /\ page = Route(target, user)
        /\ LoginFields /\ ProfileFields
        /\ users = {} /\ usersLoading = (page = "AdminPanel")
        /\ showPasswordDialog = FALSE /\ selectedUser = Null
        /\ newPassword = <<>>
        /\ pluginsLoading = (page = "PluginManagement")
        /\ plugins = <<>> /\ editingPlugin = NoPlugin
        /\ srvPlugins = Plugin(TRUE, <<>>)
        /\ net = AddAll(EmptyBag, MountRequests(page))
        /\ unmounted = EmptyBag
        /\ ev = [name |-> "openUrl", to |-> target]
        /\ sent = MountRequests(page) /\ toast = <<>>
SpecSession == InitSession /\ [][NextSession]_vars

\* A logout while the Dashboard works: its loads or an upload batch are
\* under way.
NextLogout ==
    \/ page = "Dashboard" /\ ListLoadersDone
    \/ page = "Dashboard" /\ \E n \in Sizes : onChangeFiles(n)
    \/ \E r \in Pending, ok \in BOOLEAN : uploadDone(r, ok)
    \/ handleLogout
    \/ \E r \in BagToSet(unmounted) : unmountedLoadDone(r)
    \/ \E r \in BagToSet(unmounted), ok \in BOOLEAN : unmountedUploadDone(r, ok)
SpecLogout == Init /\ [][NextLogout]_vars

\* The plugin page, opened by the super admin.
NextPlugins ==
    \/ \E r \in Pending, ok \in BOOLEAN : loadPluginsDone(r, ok)
    \/ \E plugin \in PluginCards : togglePlugin(plugin)
    \/ \E r \in Pending, ok \in BOOLEAN : togglePluginDone(r, ok)
    \/ \E plugin \in PluginCards : editPlugin(plugin)
    \/ \E blocked \in Extensions : setBlockedExtensions(blocked)
    \/ cancelEditPlugin
    \/ updatePluginSettings
    \/ \E r \in Pending, ok \in BOOLEAN : updatePluginSettingsDone(r, ok)
SpecPlugins == InitPage("PluginManagement") /\ [][NextPlugins]_vars

Next ==
    \/ NextSession \/ NextLogout \/ NextPlugins
    \/ NextNav \/ NextDrag \/ NextCreate \/ NextUpload \/ NextMove
    \/ NextDropArea \/ NextDelete \/ NextMoves \/ NextFolderUpload
    \/ NextPassword \/ NextForms \/ NextLoading \/ NextGesture

Spec == Init /\ [][Next]_vars

\* -------------------------------------------------------------- the claims
Kinds(reqs) == [i \in 1..Len(reqs) |-> reqs[i].kind]

\* C1: no /folders/move request is ever sent whose destination is the moved
\* folder itself, through the move dialog or by a drop.
C1_NoSelfMoveRequest ==
    \A r \in Pending : r.kind = "folders/move" => r.dest # r.id

\* C2: after Navigate(X) then Navigate(null), once every outstanding response
\* has been delivered (none of them a failure), the breadcrumb is empty and
\* the files and folders shown are the root's, as before the navigation.
C2_BackToRootShowsRoot ==
    (nav = "back" /\ currentFolder = Null /\ net = EmptyBag)
        => /\ breadcrumb = <<>>
           /\ files = srvFilesIn(Null)
           /\ folders = {f \in srvTree : srvParent[f] = Null}

\* C3 as stated: a drop handler whose move request was answered, with a
\* success or with a failure, reloads the file list and the folder list.
C3_DropMoveAlwaysReloads ==
    ev.name = "dropMoveDone" => Kinds(sent) = <<"files/list", "folders/tree">>

\* C3 amended: the drop handler reloads the file list and the folder list
\* when its move request succeeded, and reloads nothing when it failed.
C3_DropMoveReloadsOnSuccessOnly ==
    ev.name = "dropMoveDone"
        => Kinds(sent) = IF ev.ok THEN <<"files/list", "folders/tree">> ELSE <<>>

C3_FailedDropMove ==
    /\ ev.name = "dropMoveDone" /\ ~ev.ok
    /\ toast = <<[kind |-> "error", msg |-> "Failed to move"]>>
    /\ sent = <<>>

\* C4: when the drop handler of a folder row returns, draggedItem is null,
\* whether it sent a move request or ignored a drop of the item on itself.
C4_DropOnFolderClearsDraggedItem ==
    ev.name = "handleDropOnFolder" => draggedItem = NoItem

\* C10: dragstart and dragend send no request and leave currentFolder, files,
\* folders, breadcrumb and stats as they were; after dragend draggedItem and
\* dropTarget are both null.
C10_DragCancelled ==
    [][/\ ev'.name \in {"handleDragStart", "handleDragEnd"}
            => sent' = <<>> /\ UNCHANGED <<viewVars, net, srvVars>>
       /\ ev'.name = "handleDragEnd"
            => draggedItem' = NoItem /\ dropTarget' = Null]_vars

\* A drag that was started, passed over a folder, and was cancelled.
C10_CancelledDrag ==
    /\ ev.name = "handleDragEnd" /\ gesture = "cancelled"
    /\ draggedItem = NoItem /\ dropTarget = Null

\* A name is blank when it is empty or all white space.
IsBlank(name) == \A i \in 1..Len(name) : IsSpace(name[i])

\* C6: handleCreateFolder with a blank name sends no request and changes no
\* state: the dialog stays open, the name field and the lists are unchanged.
C6_BlankNameCreatesNothing ==
    [][(ev'.name = "handleCreateFolder" /\ IsBlank(newFolderName))
          => /\ sent' = <<>>
             /\ UNCHANGED <<viewVars, loading, net, srvVars>>
             /\ UNCHANGED <<folderDialogVars, moveDialogVars, dragVars>>]_vars

\* The create button pressed on a name of white space only.
C6_WhitespaceNameSubmitted ==
    /\ ev.name = "handleCreateFolder"
    /\ newFolderName # <<>> /\ IsBlank(newFolderName)
    /\ showFolderDialog /\ sent = <<>>

\* C5: while an upload request of some batch is in flight, loading is true.
C5_LoadingWhileUploading ==
    CountOf({"files/upload"}) > 0 => loading

RECURSIVE CountOk(_)
CountOk(log) ==
    IF log = <<>> THEN 0 ELSE (IF Head(log) THEN 1 ELSE 0) + CountOk(Tail(log))
ToastCounts(kind) == {toast[i].count : i \in {j \in 1..Len(toast) : toast[j].kind = kind}}
\* The toasts report m successes and k failures: each count in one toast of
\* its kind, shown only if it is positive.
Reports(m, k) ==
    /\ ToastCounts("success") = (IF m > 0 THEN {m} ELSE {})
    /\ ToastCounts("error") = (IF k > 0 THEN {k} ELSE {})
    /\ Len(toast) = (IF m > 0 THEN 1 ELSE 0) + (IF k > 0 THEN 1 ELSE 0)

\* C7 as stated: when the uploads of a user action are over, the toasts report
\* the M successes and N-M failures counted over the whole action.
C7_ReportsCountsOfTheAction ==
    (ev.name = "uploadDone" /\ ev.done /\ ev.last)
        => Reports(CountOk(ev.act), Len(ev.act) - CountOk(ev.act))

\* C7 amended: each handleFileUpload call (the whole selection of the file
\* picker or of a drop; one folder-path group of a folder upload) reports the
\* M successes and N-M failures of its own N files, and nothing before its
\* last request is answered.
C7_ReportsCountsOfTheCall ==
    ev.name = "uploadDone"
        => IF ev.done
             THEN Reports(CountOk(ev.log), Len(ev.files) - CountOk(ev.log))
             ELSE toast = <<>>

\* A batch of two files, one stored and one refused, reported as 1 and 1.
C7_MixedBatchReported ==
    /\ ev.name = "uploadDone" /\ ev.done
    /\ ev.log = <<TRUE, FALSE>>
    /\ ToastCounts("success") = {1} /\ ToastCounts("error") = {1}

\* C8: a batch requests its files one at a time and in list order, each file
\* once: the i-th request goes out when the i-1 before it are answered, and
\* when the batch ends every file was requested exactly once, failures or not.
C8_OneRequestPerFileInOrder ==
    /\ \A r \in Pending :
          r.kind = "files/upload"
              => /\ r.reqs = SubSeq(r.files, 1, r.i)
                 /\ Len(r.log) = r.i - 1
    /\ (ev.name = "uploadDone" /\ ev.done)
          => /\ ev.reqs = ev.files
             /\ Len(ev.log) = Len(ev.files)

\* A batch of two files whose first upload failed and whose second was still
\* requested, and stored.
C8_SecondFileAfterFailure ==
    /\ ev.name = "uploadDone" /\ ev.done
    /\ Len(ev.files) = 2 /\ ev.reqs = ev.files
    /\ ev.log = <<FALSE, TRUE>>

IsPrefix(p, q) == Len(p) <= Len(q) /\ SubSeq(q, 1, Len(p)) = p

\* C9: the response to the last upload request of a batch, and no step of the
\* upload handlers before it, issues the reloads of the file list, the folder
\* list and the stats, however many files failed.
C9_ReloadsAfterLastUpload ==
    /\ ev.name = "uploadDone"
          => IF ev.done
               THEN /\ IsPrefix(<<"files/list", "folders/tree", "user/stats">>,
                                Kinds(sent))
                    /\ Len(ev.log) = Len(ev.files)
               ELSE Kinds(sent) = <<"files/upload">>
    /\ ev.name \in {"handleFileUpload", "handleFolderUpload", "handleDrop"}
          => Range(Kinds(sent)) \subseteq {"files/upload"}

\* A batch all of whose files failed, reloading all the same.
C9_ReloadAfterTotalFailure ==
    /\ ev.name = "uploadDone" /\ ev.done
    /\ ev.log = <<FALSE, FALSE>>
    /\ Kinds(sent) = <<"files/list", "folders/tree", "user/stats">>

\* C11: a drop on the file-manager card that carries files starts an upload
\* of those files and sends no move request, also while an item is dragged; a
\* drop without files while an item is dragged sends exactly one move request,
\* for that item, to the root; a drop with neither sends nothing.
C11_RootDropDispatch ==
    [][\A n \in Sizes : onDrop(n) =>
          /\ n > 0 => /\ Kinds(sent') = <<"files/upload">>
                      /\ sent'[1].files = Selection(n)
                      /\ CountOf(MutationKinds)' = CountOf(MutationKinds)
          /\ (n = 0 /\ draggedItem # NoItem) =>
                      /\ Len(sent') = 1
                      /\ sent'[1].kind = (IF draggedItem.type = "file"
                                            THEN "files/move" ELSE "folders/move")
                      /\ sent'[1].id = draggedItem.id /\ sent'[1].dest = Null
          /\ (n = 0 /\ draggedItem = NoItem) => sent' = <<>> /\ net' = net]_vars

\* Files dropped on the card while a row is being dragged.
C11_FilesDroppedDuringDrag ==
    /\ ev.name = "handleDrop" /\ draggedItem # NoItem
    /\ Kinds(sent) = <<"files/upload">>

\* C12: whenever no request is in flight the view is the current folder's:
\* every folder listed has currentFolder as parent and the files listed are
\* the listing of currentFolder.  Stated for the states reached by navigating
\* from a fully loaded root with no failed response since.
C12_ViewMatchesCurrentFolder ==
    (nav \in {"away", "back"} /\ net = EmptyBag)
        => /\ \A f \in folders : srvParent[f] = currentFolder
           /\ files = srvFilesIn(currentFolder)

\* C13: from a navigation until the reloads it triggered have all completed,
\* loading is true.  Once the scenario is under way every request in flight
\* is a reload that a navigation triggered.
C13_LoadingWhileNavigating ==
    (nav \in {"away", "back"} /\ net # EmptyBag) => loading

\* C14: a delete request is sent only by the confirm button of the delete
\* dialog, with the dialog open and for the item held in deleteTarget; none is
\* sent while deleteTarget is null, and cancelling the dialog sends none.
C14_DeleteOnlyOnConfirm ==
    [][/\ CountOf(DeleteKinds)' > CountOf(DeleteKinds)
            => /\ ev'.name = "handleDelete"
               /\ showDeleteDialog /\ deleteTarget # NoItem
               /\ sent' = <<deleteRequest(deleteTarget, currentFolder)>>
       /\ ev'.name = "cancelDelete" => sent' = <<>> /\ net' = net]_vars

\* The confirm button pressed on the dialog opened for a folder.
C14_DeleteConfirmed ==
    /\ ev.name = "handleDelete" /\ deleteTarget.type = "folder"
    /\ Kinds(sent) = <<"folders/delete">> /\ sent[1].id = deleteTarget.id

\* C15: after a successful delete of a folder, once nothing is in flight any
\* more, neither the folder nor a folder below it is in the folder list and
\* none of their files is in the file list.
C15_DeletedFolderNotListed ==
    net = EmptyBag
        => /\ \A f \in folders : srvParent[f] # Absent
           /\ \A f \in files : srvFileAt[f] # Absent

\* C16: a successful move, by the dialog or by a drop, reloads the file list
\* and the folder list and not the stats; the stats shown, and the account's
\* totals, are as before the move.
C16_MoveReloadsListsNotStats ==
    [][(ev'.name \in {"dropMoveDone", "handleMoveDone"} /\ ev'.ok)
          => /\ Kinds(sent') = <<"files/list", "folders/tree">>
             /\ stats' = stats /\ srvStats' = srvStats]_vars

\* A folder moved into another by the dialog.
C16_MovedByDialog ==
    /\ ev.name = "handleMoveDone" /\ ev.ok
    /\ \E f \in FolderIds : srvParent[f] \notin {Null, Absent}
    /\ Kinds(sent) = <<"files/list", "folders/tree">>

\* The passwords of the examples: "abc", "Abcdef1!", and "Abcdef1".
Abc == <<"a", "b", "c">>
Abcdef1Bang == <<"A", "b", "c", "d", "e", "f", "1", "!">>
Abcdef1 == <<"A", "b", "c", "d", "e", "f", "1">>
\* The rules whose pass state differs between two passwords.
Flipped(old, new) ==
    {id \in DOMAIN requirements(old) : requirements(old)[id] # requirements(new)[id]}
\* new is old with one character replaced, or with one character removed.
IsReplace(old, new) ==
    /\ Len(new) = Len(old)
    /\ Cardinality({i \in 1..Len(old) : old[i] # new[i]}) = 1
IsRemove(old, new) == \E i \in 1..Len(old) : new = Without(old, i)
\* What the validator says of the two examples.
ExamplesValidated(new) ==
    /\ new = Abc =>
          /\ validatePassword(new) = <<"Minimum 8 characters",
                                       "At least one uppercase letter",
                                       "At least one special character">>
          /\ Flipped(new, Abcdef1Bang) = {"length", "uppercase", "special"}
    /\ new = Abcdef1Bang => validatePassword(new) = <<>> /\ allPassed(new)

\* C17 as stated: "abc" fails exactly the length, uppercase and special rules,
\* "Abcdef1!" passes the four rules, and one character changed (replaced or
\* removed) in a password that passes the four rules flips one rule at most:
\* the special rule alone when the special character is removed.
C17_OneChangeFlipsOneRule ==
    [][LET old == registerData.password
           new == registerData'.password
       IN  /\ ExamplesValidated(new)
           /\ (allPassed(old) /\ (IsReplace(old, new) \/ IsRemove(old, new)))
                 => Cardinality(Flipped(old, new)) <= 1
           /\ (allPassed(old) /\ IsRemove(old, new) /\ ~test(SpecialChars, new))
                 => Flipped(old, new) = {"special"}]_vars

\* C17, amended: the two examples as stated; one character replaced in a
\* password that passes the four rules flips one rule at most and never the
\* length rule; one character removed flips one character rule at most, and
\* the length rule as well exactly when the password had 8 characters.
C17_OneChangeFlipsItsRuleAndLength ==
    [][LET old == registerData.password
           new == registerData'.password
       IN  /\ ExamplesValidated(new)
           /\ (allPassed(old) /\ IsReplace(old, new))
                 => /\ Cardinality(Flipped(old, new)) <= 1
                    /\ "length" \notin Flipped(old, new)
           /\ (allPassed(old) /\ IsRemove(old, new))
                 => /\ Cardinality(Flipped(old, new) \ {"length"}) <= 1
                    /\ "length" \in Flipped(old, new) <=> Len(old) = 8]_vars

\* "Abcdef1!" with its special character removed: two rules fail.
C17_SpecialCharacterRemoved ==
    /\ ev.name = "setRegisterPassword" /\ ev.from = Abcdef1Bang
    /\ registerData.password = Abcdef1
    /\ Flipped(ev.from, registerData.password) = {"length", "special"}

\* The groups of a folder upload as an upload request carries them: the one
\* being uploaded and those waiting; and the files of a sequence of groups.
Groups(r) == <<[path |-> r.path, files |-> r.files]>> \o r.rest
RECURSIVE filesOf(_)
filesOf(groups) ==
    IF groups = <<>> THEN <<>> ELSE Head(groups).files \o filesOf(Tail(groups))
Times(x, seq) == Cardinality({j \in 1..Len(seq) : seq[j] = x})

\* The folder picker's step for the files fs starts the upload of groups that
\* hold every file once, each under its relative path without the file name,
\* no two with the same path.
GroupedByPath(fs, started) ==
    /\ Len(started) = 1
    /\ LET gs == Groups(started[1])
       IN  /\ Len(filesOf(gs)) = Len(fs)
           /\ \A i \in 1..Len(fs) : Times(fs[i], filesOf(gs)) = 1
           /\ \A k \in 1..Len(gs) : \A j \in 1..Len(gs[k].files) :
                 gs[k].path = SubSeq(gs[k].files[j].rel, 1,
                                     Len(gs[k].files[j].rel) - 1)
           /\ \A k, l \in 1..Len(gs) : gs[k].path = gs[l].path => k = l

\* C18: a folder-picker upload uploads every selected file once, with
\* folder_path its relative path without the file name; the files of one
\* folder path form one group (top/a.txt and top/sub/b.txt give the groups
\* "top" and "top/sub"); a group's first request is sent by the response to
\* the last request of the group before it, and no two upload requests are in
\* flight together.
C18_FolderUploadByGroups ==
    [][/\ \A n \in 1..Len(Tree), top \in Tops : handleFolderUpload(n, top) =>
             /\ GroupedByPath(Picked(n, top), sent')
             /\ n = 2 => /\ sent'[1].path = <<top>>
                         /\ [k \in 1..Len(sent'[1].rest) |-> sent'[1].rest[k].path]
                               = << <<top, "sub">> >>
       /\ \A r \in Pending, ok \in BOOLEAN : uploadDone(r, ok) =>
             \A k \in 1..Len(sent') : sent'[k].kind = "files/upload" =>
                 IF r.i < Len(r.files)
                   THEN /\ Groups(sent'[k]) = Groups(r)
                        /\ sent'[k].i = r.i + 1
                   ELSE /\ Groups(sent'[k]) = r.rest
                        /\ sent'[k].i = 1
       /\ CountOf({"files/upload"})' <= 1]_vars

\* A request that carries a new password, the password it carries, and the
\* confirmation its form held when it was sent (the admin dialog has none).
PasswordKinds == {"auth/register", "auth/change-password", "admin/change-password"}
passwordOf(r) == IF r.kind = "auth/register" THEN r.password ELSE r.new_password
ValidatedAndConfirmed(r) ==
    /\ validatePassword(passwordOf(r)) = <<>>
    /\ r.kind = "auth/register" => registerData.confirm_password = r.password
    /\ r.kind = "auth/change-password"
          => passwordData.confirm_password = r.new_password

\* C19: no request to /auth/register, /auth/change-password or
\* /admin/change-password is sent with a new password that fails a rule of
\* the password validator, and none by the register form or the profile's
\* change-password form while the confirmation differs from the new password.
C19_NoRequestWithRejectedPassword ==
    [][\A k \in 1..Len(sent') :
          sent'[k].kind \in PasswordKinds => ValidatedAndConfirmed(sent'[k])]_vars

\* C20: every loading flag that a handler set to true is set back to false in
\* the end, whatever its requests are answered with and whatever its input,
\* when every request gets its response: the flag of the login page (login,
\* register), of the profile (change password), of the Dashboard (file
\* picker, folder picker, drop), of the admin panel (loadUsers) and of the
\* plugin management (loadPlugins).
C20_LoadingEndsFalse ==
    /\ loginLoading ~> ~loginLoading
    /\ profileLoading ~> ~profileLoading
    /\ loading ~> ~loading
    /\ usersLoading ~> ~usersLoading
    /\ pluginsLoading ~> ~pluginsLoading

\* C24: dropTarget becomes a folder's id only by a dragover on that folder
\* while an item with another id is dragged; so whenever dropTarget is not
\* null, an item is dragged and it is not the drop target.
C24_DropTargetOnlyWhileDragging ==
    /\ [][(dropTarget' # dropTarget /\ dropTarget' # Null)
             => /\ ev'.name = "handleDragOverItem"
                /\ dropTarget' \in folders
                /\ draggedItem # NoItem /\ draggedItem.id # dropTarget']_vars
    /\ [](dropTarget # Null
             => draggedItem # NoItem /\ draggedItem.id # dropTarget)

\* C25: a dragend, whatever the drag state (an item dragged or not, a folder
\* highlighted or not, a move request in flight or not), leaves draggedItem
\* and dropTarget null and sends no request.
C25_DragEndClearsAll ==
    [][handleDragEnd => /\ draggedItem' = NoItem /\ dropTarget' = Null
                        /\ sent' = <<>> /\ net' = net]_vars

\* A drag given up while the move of an earlier drop is still in flight.
C25_DragEndedDuringMove ==
    /\ ev.name = "handleDragEnd" /\ gesture = "cancelled"
    /\ CountOf(MutationKinds) > 0
    /\ draggedItem = NoItem /\ dropTarget = Null

\* C26: during a drag, which began after the drop that sent it, the response
\* to a move request, success or failure, leaves draggedItem as it is.
C26_CompletionKeepsLaterDrag ==
    [][\A r \in Pending, ok \in BOOLEAN :
          (gesture = "dragging" /\ dropMoveDone(r, ok))
              => draggedItem' = draggedItem]_vars

\* C27: in the move dialog a successful move closes the dialog and resets
\* moveTarget and moveDestination to null; a failed move changes none of the
\* three and sends no reload; and the dialog, opened for an item, has the
\* root (null) selected as destination.
C27_MoveDialogResets ==
    [][/\ \A r \in Pending, ok \in BOOLEAN : handleMoveDone(r, ok) =>
             IF ok THEN /\ ~showMoveDialog' /\ moveTarget' = NoItem
                        /\ moveDestination' = Null
                   ELSE UNCHANGED moveDialogVars /\ sent' = <<>>
       /\ \A item \in Rows : openMoveDialog(item) =>
             /\ showMoveDialog' /\ moveTarget' = item
             /\ moveDestination' = Null]_vars

\* C21: from a logout until the next successful /auth/login response,
\* localStorage holds neither 'token' nor 'user' and the App's user is null,
\* whatever responses to earlier requests arrive in between.
C21_LoggedOutUntilLogin ==
    loggedOut => token = NoToken /\ userData = NoUser /\ user = NoUser

\* C22: a response reporting failure leaves the 'token' and 'user' items and
\* the App's user as they were; within one run of the App only handleLogout
\* removes an item or sets the user to null.
SessionRemoved ==
    \/ token # NoToken /\ token' = NoToken
    \/ userData # NoUser /\ userData' = NoUser
    \/ user # NoUser /\ user' = NoUser /\ ev'.name # "openUrl"
C22_FailedRequestKeepsSession ==
    [][/\ ("ok" \in DOMAIN ev' /\ ~ev'.ok)
            => UNCHANGED <<token, userData, user>>
       /\ SessionRemoved => ev'.name = "handleLogout"]_vars
\* A load of the Dashboard has failed and the session is still there.
C22_LoadFailedWhileLoggedIn ==
    /\ ev.name = "loadFiles" /\ ~ev.ok
    /\ token # NoToken /\ userData # NoUser /\ user # NoUser

\* C23: every request other than /auth/login and /auth/register is sent with
\* the Authorization header of the token stored as it is sent, and none is
\* sent while no token is stored: not the next request of a batch, not the
\* reloads of a handler that began before a logout.
C23_NoRequestWithoutToken ==
    [][\A i \in 1..Len(sent') :
          sent'[i].kind \notin PublicKinds => getAuthHeader' # BearerNull]_vars

\* C28: in a registration /auth/login is sent only after /auth/register
\* succeeded; the token and the user are stored, and the App's user set, only
\* by a successful /auth/login response; when either request fails
\* localStorage and the App's user stay as they were.
C28_RegisterThenLogin ==
    [][/\ \A i \in 1..Len(sent') :
             (sent'[i].kind = "auth/login" /\ sent'[i].via = "handleRegister")
                 => ev'.name = "handleRegisterDone" /\ ev'.ok
       /\ <<token, userData, user>>' # <<token, userData, user>>
             => ev'.name = "handleLoginDone" /\ ev'.ok
       /\ (ev'.name \in {"handleRegisterDone", "handleLoginDone"} /\ ~ev'.ok)
             => UNCHANGED <<token, userData, user>>]_vars
\* A registration has logged the new user in.
C28_RegisteredAndLoggedIn ==
    /\ ev.name = "handleLoginDone" /\ ev.ok /\ ev.via = "handleRegister"
    /\ token # NoToken /\ userData # NoUser /\ user = userData
    /\ page = "Dashboard"

\* C29: once the App's effect has run, a protected page is shown only with
\* a user, the admin panel only to a user whose role is 'admin', the plugin
\* page only to a super admin, the login page only without a user; and a
\* page load restores the user only when localStorage holds both 'token' and
\* 'user'.
C29_RoutesGuarded ==
    /\ [](/\ page # "Login" => user # NoUser
          /\ page = "AdminPanel" => user.role = "admin"
          /\ page = "PluginManagement" => user.is_super_admin
          /\ page = "Login" => user = NoUser)
    /\ [][(ev'.name = "openUrl" /\ user' # NoUser)
             => token # NoToken /\ userData # NoUser /\ user' = userData]_vars
\* The application was opened at a protected location while localStorage
\* held a 'user' item and no token: the login page is shown.
C29_OpenedWithUserItemOnly ==
    /\ ev.name = "openUrl" /\ ev.to # "Login"
    /\ token = NoToken /\ userData # NoUser
    /\ user = NoUser /\ page = "Login"

\* C30: saving a plugin's settings leaves its enabled flag alone: the
\* enabled value updatePluginSettings sends is the one the plugin has in the
\* list as Save is pressed, also when the plugin was toggled after Edit was
\* pressed; a successful save leaves the backend's flag as it was.
C30_SaveKeepsEnabled ==
    [][/\ updatePluginSettings =>
             \A plugin \in PluginCards :
                 plugin.name = sent'[1].name
                     => sent'[1].body.enabled = plugin.enabled
       /\ \A r \in Pending :
             updatePluginSettingsDone(r, TRUE)
                 => srvPlugins'.enabled = srvPlugins.enabled]_vars

====
